---- MODULE Spec2Model ----
(***************************************************************************)
(* safe-py-runner: the container pool (execution/docker_pool.py), the      *)
(* container engine (execution/docker_engine.py), the Runner (runner.py)   *)
(* and the in-isolation worker (worker.py) as state machines.              *)
(*                                                                         *)
(* Spec       caller threads running run_code on DockerEngine objects that *)
(*            share GLOBAL_DOCKER_POOL, a wall clock ticking in seconds    *)
(*            and a Docker backend whose containers may stop on their own. *)
(*            Time is kept as elapsed seconds: an entry carries            *)
(*            age = time.time() - created_at and                           *)
(*            idle = time.time() - last_used_at, a waiting acquire carries *)
(*            to_deadline = deadline - time.time(); all three stop         *)
(*            counting where no comparison of the code can tell them apart.*)
(*            The host of Spec cannot build the local runtime image.       *)
(* ImagesSpec the same pool on a host that cannot pull the published image *)
(*            and builds the local one: two images in one pool.            *)
(* WorkerSpec one worker process running main() on one request.            *)
(* ImportSpec the worker on requests that import a module, under policies  *)
(*            that differ in mode and import lists.                        *)
(* GlobalsSpec the worker on requests that differ in input_data and in the *)
(*            policy's global-name lists and extra_globals.                *)
(* EnginesSpec run_code on a LocalEngine, on a DockerEngine and on engines *)
(*            of other classes, with the timeout of each local run.        *)
(* WorkspaceSpec DockerEngine.execute one `docker exec` at a time, with    *)
(*            the files the runs leave in each container's /tmp.           *)
(* ManageSpec stop_container / kill_container beside one caller's runs.    *)
(* OutputSpec the worker on requests that differ in what the code writes,  *)
(*            in how it ends and in the policy's max_output_kb.            *)
(* RunCodeSpec run_code from its arguments to engine.execute.              *)
(* ConstructSpec DockerEngine.__init__ with its connection options, and    *)
(*            the runs on the engine it yields.                            *)
(* ResolveSpec _resolve_image one docker command at a time, for callers    *)
(*            that share engines.                                          *)
(***************************************************************************)
EXTENDS Integers, Sequences, FiniteSets, TLC

\* ------------------------------------------------------------------ bounds
MaxContainers == 2     \* container names the backend hands out (uuid4 is fresh)

\* the caller threads inside run_code at the same time
Callers == {1, 2}
Names == 1..MaxContainers
NoLease == 0           \* Python None for a lease / a lock holder / a name

Min(a, b) == IF a < b THEN a ELSE b
Max(a, b) == IF a > b THEN a ELSE b

\* ------------------------------------------------------- execution/config.py
DEFAULT_DOCKER_IMAGE == "ghcr_py311"
LOCAL_RUNTIME_IMAGE == "runtime_local"
NoImage == "none"
Images == {DEFAULT_DOCKER_IMAGE, LOCAL_RUNTIME_IMAGE}

\* os.cpu_count() of the host
CpuCount == 1

default_pool_settings(timeout_seconds) ==
    [pool_size |-> Min(CpuCount, 4),
     max_runs |-> 25,
     ttl_seconds |-> 600,
     acquire_timeout |-> Max(1, timeout_seconds) + 2]

\* ------------------------------------------------ the DockerEngine objects
\* Constructor arguments of the engines the callers use; 0 is None (and, as in
\* `x or default`, a 0 override falls back to the default too).
\* Engine 1 names the published image explicitly and keeps two containers; engine 2
\* names no image (published image, else the local build) and takes the default size.
Engines ==
    << [container_registry |-> DEFAULT_DOCKER_IMAGE, pool_size |-> 2, max_runs |-> 2,
        ttl_seconds |-> 1, acquire_timeout_seconds |-> 1],
       [container_registry |-> NoImage, pool_size |-> 0, max_runs |-> 2,
        ttl_seconds |-> 1, acquire_timeout_seconds |-> 1] >>
EngineIds == DOMAIN Engines
NoEngine == 0
\* a LocalEngine, and an engine of any other class that has an execute method
LocalEngineId == 3
OtherEngineId == 4

\* policy.timeout_seconds of the runs
TimeoutSeconds == 1

Or(override, default) == IF override # 0 THEN override ELSE default

pool_settings(e, timeout_seconds) ==
    LET defaults == default_pool_settings(timeout_seconds) IN
    [pool_size |-> Or(Engines[e].pool_size, defaults.pool_size),
     max_runs |-> Or(Engines[e].max_runs, defaults.max_runs),
     ttl_seconds |-> Or(Engines[e].ttl_seconds, defaults.ttl_seconds),
     acquire_timeout |-> Or(Engines[e].acquire_timeout_seconds, defaults.acquire_timeout)]

VARIABLES
    by_image,      \* DockerPool._by_image : image -> list of entries
    lock,          \* DockerPool._lock : the caller holding it, or NoLease
    running,       \* backend: names of the containers that exist and run
    image_of,      \* backend: the image each container was started from
    next_name,     \* backend: the next fresh container name
    cached_image,  \* DockerEngine._cached_image per engine
    fleet,         \* the DockerEngine objects the program constructed
    pc,            \* each caller's position in run_code / execute / acquire
    eng,           \* the engine of the caller's current run_code call
    image,         \* execute's local `image`
    to_deadline,   \* acquire's local `deadline`, as seconds still to go
    lease,         \* execute's local `lease` (container name or NoLease)
    mark_bad,      \* execute's local `mark_bad`
    outcome,       \* the ExecutionOutcome execute is returning
    result,        \* what run_code handed its caller
    failure,       \* history: the failure that ended this execute, if any
    releases,      \* history: pool.release calls of this execute
    attempt,       \* history: what the caller's last acquire attempt met
    wpc,           \* worker: position in main()
    wreq,          \* worker: the request read from standard input
    wout,          \* worker: the JSON objects written to standard output, in order
    wexit,         \* worker: the process's exit code
    wexc,          \* worker: the exception propagating out of main's try body
    system_exit,   \* worker: main's local `system_exit` (its payload)
    exec_globals,  \* worker: main's local `exec_globals`, name -> what it is bound to
    child,         \* LocalEngine: the worker subprocess of the caller's subprocess.run
    timer,         \* LocalEngine: seconds left of subprocess.run's timeout
    scratch,       \* backend: what each container's /tmp holds from the runs so far
    started,       \* history: the worker was started in the caller's leased container
    seen,          \* history: what /tmp held of earlier runs when that worker started
    call,          \* the management call in progress on an engine, with its locals
    docker_cmds,   \* history: the docker commands that call has issued after its checks
    rc,            \* run_code: the arguments and locals of a call, up to engine.execute
    ctor,          \* DockerEngine.__init__: the options of a construction and how it ended
    rs,            \* _resolve_image: each caller's position and locals
    cached_ref,    \* DockerEngine._cached_image of the engines of ImageEngines
    exists,        \* backend: the image references present on the docker host
    builds,        \* history: the images `docker build` was run for, with what existed then
    first_image,   \* history: the image each engine's first finished resolution returned
    memory_limit_mb, \* execute's local `memory_limit_mb`, read from the payload's policy
    mem_of,        \* backend: the --memory ceiling each container was started with, in MB
    locked_calls,  \* history: the docker commands of the caller's last step under the lock
    venv,          \* LocalEngine: what the venv directory holds
    prep,          \* LocalEngine: the construction in progress, and what it ran
    toml,          \* the policy file on disk: the keys it sets, or that it is missing
    loaded         \* RunnerPolicy.from_file: the policy it returned

poolShared == << by_image, lock, running, image_of, next_name, cached_image, fleet >>
callerLocals == << pc, eng, image, to_deadline, lease, mark_bad, outcome, result >>
history == << failure, releases, attempt >>
workerVars == << wpc, wreq, wout, wexit, wexc, system_exit, exec_globals >>
localVars == << child, timer >>
scratchVars == << scratch, started, seen >>
mgmtVars == << call, docker_cmds >>
resolveVars == << rs, cached_ref, exists, builds, first_image >>
setupVars == << rc, ctor, resolveVars >>
auditVars == << memory_limit_mb, mem_of, locked_calls >>
venvVars == << venv, prep >>
policyVars == << toml, loaded >>
envVars == << auditVars, venvVars, policyVars >>
vars == << poolShared, callerLocals, history, workerVars, localVars, scratchVars, mgmtVars, setupVars, envVars >>

\* ---------------------------------------------------- execution/types.py
\* ExecutionOutcome(stdout, stderr, returncode, timed_out, error); kind tells a
\* returned outcome from an exception leaving execute. stdout is kept by shape.
ExecutionOutcome(stdout, returncode, timed_out, error) ==
    [kind |-> "returned", stdout |-> stdout, returncode |-> returncode,
     timed_out |-> timed_out, error |-> error]
ExceptionOutcome ==
    [kind |-> "raised", stdout |-> "empty", returncode |-> 0,
     timed_out |-> FALSE, error |-> "none"]
NoOutcome ==
    [kind |-> "none", stdout |-> "empty", returncode |-> 0,
     timed_out |-> FALSE, error |-> "none"]

\* What a finished `docker exec ... python -m safe_py_runner.worker` can hand back:
\* (shape of stdout, return code).
WorkerOutputs ==
    { <<"obj_ok", 0>>, <<"non_object", 0>> }

\* ------------------------------------------------------------- runner.py
RunnerResult(ok, timed_out, error, exit_code) ==
    [kind |-> "result", ok |-> ok, timed_out |-> timed_out, error |-> error,
     exit_code |-> exit_code]
RunnerRaised ==
    [kind |-> "raised", ok |-> FALSE, timed_out |-> FALSE, error |-> TRUE, exit_code |-> 0]
NoResult ==
    [kind |-> "none", ok |-> FALSE, timed_out |-> FALSE, error |-> FALSE, exit_code |-> 0]

\* a run_code that reads the outcome's error and stdout before its timed_out flag
run_code_result_timeout_last(out) ==
    IF out.kind = "raised" THEN RunnerRaised
    ELSE IF out.error # "none" /\ out.stdout = "empty"
        THEN RunnerResult(FALSE, FALSE, TRUE, out.returncode)
    ELSE IF out.stdout = "not_json"
        THEN RunnerResult(FALSE, FALSE, TRUE, out.returncode)
    ELSE IF out.stdout = "non_object" THEN RunnerRaised
    ELSE IF out.timed_out THEN RunnerResult(FALSE, TRUE, TRUE, 124)
    ELSE IF out.stdout = "empty"
        THEN RunnerResult(FALSE, FALSE, out.error # "none", out.returncode)
    ELSE RunnerResult(out.stdout = "obj_ok", FALSE,
                      out.stdout = "obj_fail" \/ out.error # "none", out.returncode)

\* run_code, from the engine's outcome on (runner.py 84-120)
run_code_result(out) ==
    IF out.kind = "raised" THEN RunnerRaised
    ELSE IF out.timed_out THEN RunnerResult(FALSE, TRUE, TRUE, 124)
    ELSE IF out.error # "none" /\ out.stdout = "empty"
        THEN RunnerResult(FALSE, FALSE, TRUE, out.returncode)
    ELSE IF out.stdout = "not_json"
        THEN RunnerResult(FALSE, FALSE, TRUE, out.returncode)
    ELSE IF out.stdout = "non_object" THEN RunnerRaised   \* parsed.get on a non-dict
    ELSE IF out.stdout = "empty"                          \* raw = "{}"
        THEN RunnerResult(FALSE, FALSE, out.error # "none", out.returncode)
    ELSE RunnerResult(out.stdout = "obj_ok", FALSE,
                      out.stdout = "obj_fail" \/ out.error # "none", out.returncode)

\* --------------------------------------------------- execution/docker_pool.py
\* _ContainerEntry(lease=ContainerLease(name, created_at=now, last_used_at=now, 0), in_use=True)
ContainerEntry(name) ==
    [name |-> name, age |-> 0, idle |-> 0, run_count |-> 0, in_use |-> TRUE]

\* should_rotate with the run threshold compared by > in place of >=
should_rotate_past_max(entry, settings) ==
    IF entry.run_count > settings.max_runs THEN TRUE
    ELSE entry.age >= settings.ttl_seconds

\* should_rotate without the run threshold of lines 51-52
should_rotate_by_age(entry, settings) == entry.age >= settings.ttl_seconds

\* now - lease.created_at is the entry's age
should_rotate(entry, settings) ==
    IF entry.run_count >= settings.max_runs THEN TRUE
    ELSE entry.age >= settings.ttl_seconds

RemoveAt(seq, i) == SubSeq(seq, 1, i - 1) \o SubSeq(seq, i + 1, Len(seq))

EntryNames(entries) == { entries[i].name : i \in DOMAIN entries }

\* a rotation without the `if entry.in_use: continue` of lines 190-191
RotateKeepNotDue(entry, settings) == ~should_rotate(entry, settings)

\* _rotate_locked: iterates over a copy, so every idle member due is removed
RotateKeep(entry, settings) == entry.in_use \/ ~should_rotate(entry, settings)

rotate_locked(entries, settings) ==
    LET kept == SelectSeq(entries, LAMBDA en : RotateKeep(en, settings)) IN
    [entries |-> kept, removed |-> EntryNames(entries) \ EntryNames(kept)]

\* a scan without the `if entry.in_use: continue` of lines 105-106
ScanSkipNothing(entry) == FALSE

\* The scan of acquire (lines 104-120): `for entry in entries` walks the live list by
\* index while _remove_entry_locked deletes from it, so after a removal at index i
\* the iterator's next index i+1 is the member that followed the one after it.
ScanSkip(entry) == entry.in_use

\* a probe that takes every container for running
is_running_unasked(name, alive) == TRUE

\* _is_running (lines 276-300): `docker inspect` answers true for a running container
is_running(name, alive) == name \in alive

RECURSIVE scan_from(_, _, _)
scan_from(entries, i, alive) ==
    IF i > Len(entries) THEN [entries |-> entries, lease |-> NoLease, removed |-> {}]
    ELSE LET entry == entries[i] IN
        IF ScanSkip(entry) THEN scan_from(entries, i + 1, alive)
        ELSE IF ~is_running(entry.name, alive)
            THEN LET rest == scan_from(RemoveAt(entries, i), i + 1, alive) IN
                 [rest EXCEPT !.removed = @ \cup {entry.name}]
        ELSE [entries |-> [entries EXCEPT ![i].in_use = TRUE],
              lease |-> entry.name, removed |-> {}]

\* the capacity test of line 122 with <= in place of <
HasCapacityInclusive(entries, settings) == Len(entries) <= settings.pool_size

HasCapacity(entries, settings) == Len(entries) < settings.pool_size

\* release (lines 157-171): the index of the first entry of that name, 0 if none
EntryIndex(entries, name) ==
    IF \E i \in DOMAIN entries : entries[i].name = name
    THEN CHOOSE i \in DOMAIN entries :
            /\ entries[i].name = name
            /\ \A j \in 1..(i - 1) : entries[j].name # name
    ELSE 0

\* a release that leaves out `entry.lease.run_count += 1` (line 163)
ReleasedUncounted(entry) ==
    [entry EXCEPT !.in_use = FALSE, !.idle = 0]

\* last_used_at = time.time() makes the entry's idle time 0
Released(entry) ==
    [entry EXCEPT !.in_use = FALSE, !.idle = 0, !.run_count = @ + 1]

release_entries(entries, name, bad) ==
    LET i == EntryIndex(entries, name) IN
    IF i = 0 THEN entries
    ELSE IF bad THEN RemoveAt(entries, i)
    ELSE [entries EXCEPT ![i] = Released(entries[i])]

\* one list of entries for every image, in place of a list per image
PoolKeyShared(img) == DEFAULT_DOCKER_IMAGE

PoolKey(img) == img

\* What an attempt met: avail, an idle member that passes the liveness probe or room
\* below pool_size; rotated, the members its rotation step removed.
NoAttempt == [avail |-> FALSE, rotated |-> {}]

\* -------------------------------------------------------------- worker.py
\* The request main() reads: the policy's mode and builtin lists, and the submitted
\* code by what it does when executed. BuiltinNames are the builtins the programs
\* below name.
Modes == { "allow", "restrict", "bogus" }
BuiltinNames == { "SystemExit", "KeyboardInterrupt", "__import__" }

\* A module name is the sequence of its dotted components: os.path is <<"os", "path">>.
ModuleNames ==
    { <<"os">>, <<"os", "path">>, <<"math">>, <<"importlib">>, <<"importlib", "util">>,
      <<"nosuchmod">> }
\* the modules the interpreter of the worker can import
Importable == ModuleNames \ { <<"nosuchmod">> }
\* the names the policies list
ListedModules == { <<"os">>, <<"os", "path">>, <<"math">>, <<"importlib">> }

\* policy.py, RunnerPolicy defaults (lines 30-39) over the names above
DefaultPolicy ==
    [mode |-> "restrict",
     allowed_builtins |-> {}, blocked_builtins |-> {},
     allowed_imports |-> {}, blocked_imports |-> { <<"os">>, <<"importlib">> },
     allowed_globals |-> {}, blocked_globals |-> {}, extra_globals |-> {},
     max_output_kb |-> 128, memory_limit_mb |-> 256]

\* The names that input_data, extra_globals and the namespace may hold. A value is
\* told by where it comes from: "absent" (no such key), "None", "safe_builtins",
\* "input_data" (the whole input), "extra_value" (from extra_globals), "input_value"
\* (from a key of input_data), "code_value" (assigned by the submitted code).
GlobalNames == { "x", "result", "input_data", "__builtins__", "_print_", "_tmp", "a-b" }
\* the names the policies list and bind
ListedGlobals == { "x", "result" }

\* input_data: a JSON object with these top-level keys, or a value that is no object
NoInput == [is_dict |-> FALSE, keys |-> {}]
Inputs == { NoInput } \cup { [is_dict |-> TRUE, keys |-> ks] : ks \in SUBSET GlobalNames }

GlobalsPolicies ==
    { [DefaultPolicy EXCEPT !.mode = m, !.allowed_globals = a, !.blocked_globals = b,
                            !.extra_globals = e] :
        m \in { "allow", "restrict" }, a \in SUBSET ListedGlobals,
        b \in SUBSET ListedGlobals, e \in SUBSET ListedGlobals }

Policies ==
    { [DefaultPolicy EXCEPT !.mode = m, !.allowed_builtins = a, !.blocked_builtins = b] :
        m \in Modes, a \in SUBSET BuiltinNames, b \in SUBSET BuiltinNames }

ImportPolicies ==
    { [DefaultPolicy EXCEPT !.mode = m, !.allowed_imports = a, !.blocked_imports = b] :
        m \in Modes, a \in SUBSET ListedModules, b \in SUBSET ListedModules }

\* A text (a Python str) is a sequence of runs of one character each; the characters
\* differ in how many bytes their UTF-8 encoding takes.
\* characters: "a", "e_acute", "newline", "s", "t"
utf8_width(ch) == IF ch = "e_acute" THEN 2 ELSE 1
Run(n, ch) == [n |-> n, ch |-> ch]
EmptyText == << >>

RECURSIVE len(_)
\* len(text): the number of characters
len(text) == IF text = << >> THEN 0 ELSE Head(text).n + len(Tail(text))

RECURSIVE encoded_len(_)
\* len(text.encode("utf-8")): the number of bytes
encoded_len(text) ==
    IF text = << >> THEN 0
    ELSE Head(text).n * utf8_width(Head(text).ch) + encoded_len(Tail(text))

RECURSIVE count(_, _)
\* text.count(ch)
count(text, ch) ==
    IF text = << >> THEN 0
    ELSE (IF Head(text).ch = ch THEN Head(text).n ELSE 0) + count(Tail(text), ch)

RECURSIVE take(_, _)
\* the first k characters of text, k >= 0
take(text, k) ==
    IF text = << >> \/ k <= 0 THEN << >>
    ELSE IF Head(text).n <= k THEN << Head(text) >> \o take(Tail(text), k - Head(text).n)
    ELSE << Run(k, Head(text).ch) >>

\* the slice text[:stop] of a str: it counts characters, and a negative stop counts
\* from the end
slice(text, stop) ==
    IF stop >= 0 THEN take(text, stop) ELSE take(text, Max(len(text) + stop, 0))

\* SystemExit payloads: none, an int, a str
NonePayload == [type |-> "none", value |-> 0]
ExitPayloads ==
    { NonePayload, [type |-> "int", value |-> 0], [type |-> "int", value |-> 3],
      [type |-> "str", value |-> 0] }
NoSystemExit == [type |-> "unset", value |-> 0]
\* further payloads: ints outside 0..255, floats (value 0 is 0.0), a list
OutputPayloads ==
    ExitPayloads
    \cup { [type |-> "int", value |-> 256], [type |-> "int", value |-> -1],
           [type |-> "float", value |-> 0], [type |-> "float", value |-> 2],
           [type |-> "list", value |-> 0] }
\* str(payload) of an exit payload, as a text
payload_text(p) == << Run(4, "s") >>

\* syntax_error       does not compile
\* completes          runs to its end, result serializable
\* circular_result    runs to its end, json.dumps(result) raises ValueError
\* result_too_large   runs to its end, json.dumps(result) raises MemoryError
\* zero_division      raises an ordinary exception
\* allocation_fault   an allocation past RLIMIT_AS: the interpreter raises MemoryError
\* keyboard_interrupt `raise KeyboardInterrupt`
\* exit               `raise SystemExit(payload)`
\* import             one import of module `name`, in one of the ImportForms
NoModule == << >>
Programs ==
    { [kind |-> k, payload |-> NonePayload, form |-> "none", name |-> NoModule] :
        k \in { "syntax_error", "completes", "circular_result", "result_too_large",
                "zero_division", "allocation_fault", "keyboard_interrupt" } }
    \cup { [kind |-> "exit", payload |-> p, form |-> "none", name |-> NoModule] :
                p \in ExitPayloads }
    \cup { [kind |-> "import", payload |-> NonePayload, form |-> "dunder_import",
             name |-> << "math" >>] }

\* import N / import N as a / from N import y / __import__("N") /
\* import importlib; importlib.import_module("N")
ImportForms == { "import", "import_as", "from_import", "dunder_import", "import_module" }
ImportPrograms ==
    { [kind |-> "import", payload |-> NonePayload, form |-> f, name |-> n] :
        f \in ImportForms, n \in ModuleNames }

\* completes: `pass`; assign_result: `result = 'valid'`; read_global: `result = x`
GlobalsPrograms ==
    { [kind |-> k, payload |-> NonePayload, form |-> "none", name |-> NoModule] :
        k \in { "completes", "assign_result", "read_global" } }

\* programs that first write `out` to sys.stdout and `err` to sys.stderr and bind the
\* global `printed`, then end as their kind says
OutTexts ==
    { EmptyText, << Run(5, "a") >>, << Run(1024, "a") >>, << Run(1025, "a") >>,
      << Run(3000, "a") >>, << Run(1025, "e_acute") >>,
      << Run(1000, "a"), Run(100, "e_acute") >> }
ErrTexts == { EmptyText, << Run(3000, "a") >> }
PrintedTexts == { EmptyText, << Run(10, "a") >> }
OutputPrograms ==
    { [kind |-> k, payload |-> NonePayload, form |-> "none", name |-> NoModule,
       out |-> o, err |-> e, printed |-> pr] :
        k \in { "syntax_error", "completes", "zero_division", "allocation_fault" },
        o \in OutTexts, e \in ErrTexts, pr \in PrintedTexts }
    \cup { [kind |-> "exit", payload |-> p, form |-> "none", name |-> NoModule,
            out |-> o, err |-> e, printed |-> EmptyText] :
                p \in OutputPayloads, o \in { EmptyText, << Run(1025, "a") >> },
                e \in ErrTexts }
OutputPolicies ==
    { [DefaultPolicy EXCEPT !.max_output_kb = kb] : kb \in { 1, 2 } }
    \cup { [DefaultPolicy EXCEPT !.mode = "bogus", !.max_output_kb = 1] }

Requests == [code : Programs, policy : Policies, input_data : { NoInput }]
ImportRequests == [code : ImportPrograms, policy : ImportPolicies, input_data : { NoInput }]
OutputRequests == [code : OutputPrograms, policy : OutputPolicies, input_data : { NoInput }]
GlobalsRequests ==
    [code : GlobalsPrograms, policy : GlobalsPolicies, input_data : Inputs]
    \cup [code : GlobalsPrograms, policy : { [DefaultPolicy EXCEPT !.mode = "bogus"] },
          input_data : { NoInput }]
NoRequest ==
    [code |-> [kind |-> "none", payload |-> NonePayload, form |-> "none", name |-> NoModule],
     policy |-> [DefaultPolicy EXCEPT !.mode = "none", !.blocked_imports = {}],
     input_data |-> NoInput]

\* name.split(".")[0]
root(name) == << name[1] >>

\* name == "importlib" or name.startswith("importlib.")
IsImportlib(name) == name[1] = "importlib"

\* an import hook that looks the whole dotted name up in the lists
safe_import_whole_name(policy, name) ==
    IF IsImportlib(name) THEN "blocked by policy"
    ELSE IF policy.mode = "allow"
        THEN IF name \notin policy.allowed_imports THEN "not allowed by policy"
             ELSE "delegated"
    ELSE IF name \in policy.blocked_imports THEN "blocked by policy"
    ELSE "delegated"

\* an import hook that consults the lists alone
safe_import_lists_only(policy, name) ==
    IF policy.mode = "allow"
        THEN IF root(name) \notin policy.allowed_imports THEN "not allowed by policy"
             ELSE "delegated"
    ELSE IF root(name) \in policy.blocked_imports THEN "blocked by policy"
    ELSE "delegated"

\* _safe_import (lines 85-101): the ImportError text it raises, or "delegated" when the
\* call is handed to the interpreter's __import__
safe_import(policy, name) ==
    IF IsImportlib(name) THEN "blocked by policy"
    ELSE IF policy.mode = "allow"
        THEN IF root(name) \notin policy.allowed_imports THEN "not allowed by policy"
             ELSE "delegated"
    ELSE IF root(name) \in policy.blocked_imports THEN "blocked by policy"
    ELSE "delegated"

\* the name the import hook is called with: the statement's module, or importlib
\* itself for the `import importlib` that precedes importlib.import_module
hook_name(code) ==
    IF code.form = "import_module" THEN <<"importlib">> ELSE code.name

\* _build_safe_builtins (lines 118-125): the builtin names the submitted code sees
\* builtins filtered by the deny list whatever the mode
build_safe_builtins_deny_list(policy) ==
    { name \in BuiltinNames : name \notin policy.blocked_builtins } \cup { "__import__" }

build_safe_builtins(policy) ==
    { name \in BuiltinNames :
        IF policy.mode = "allow" THEN name \in policy.allowed_builtins
        ELSE name \notin policy.blocked_builtins }
    \cup { "__import__" }

\* _inject_input_keys, `reserved` (lines 31-42)
reserved ==
    { "__builtins__", "input_data", "result", "_print_", "_getattr_", "_write_",
      "_getiter_", "_getitem_", "_iter_unpack_sequence_", "_unpack_sequence_" }

\* key_str.isidentifier() and key_str.startswith("_") over GlobalNames
isidentifier(key) == key # "a-b"
startswith_underscore(key) == key \in { "__builtins__", "_print_", "_tmp" }

\* a global-name rule that reads the deny list in both modes
global_admitted_deny_list(policy, key) == key \notin policy.blocked_globals

\* the mode test of lines 49-52 and 150-153: the key is not skipped
global_admitted(policy, key) ==
    /\ ~(policy.mode = "allow" /\ key \notin policy.allowed_globals)
    /\ ~(policy.mode = "restrict" /\ key \in policy.blocked_globals)

\* _filter_extra_globals (lines 141-155): the keys it keeps
filter_extra_globals(policy) ==
    { key \in policy.extra_globals : global_admitted(policy, key) }

NoGlobals == [key \in GlobalNames |-> "absent"]

\* lines 206-213: the literal dict, then .update() with the filtered extra_globals
initial_exec_globals(policy) ==
    [key \in GlobalNames |->
        IF key \in filter_extra_globals(policy) THEN "extra_value"
        ELSE CASE key = "__builtins__" -> "safe_builtins"
               [] key = "input_data" -> "input_data"
               [] key = "result" -> "None"
               [] OTHER -> "absent"]

\* an injection that binds every admitted key of input_data, bound already or not
inject_input_keys_overwriting(globals, input_data, policy) ==
    [key \in GlobalNames |->
        IF input_data.is_dict /\ key \in input_data.keys /\ global_admitted(policy, key)
        THEN "input_value" ELSE globals[key]]

\* _inject_input_keys (lines 18-55)
inject_input_keys(globals, input_data, policy) ==
    IF ~input_data.is_dict THEN globals
    ELSE [key \in GlobalNames |->
            IF /\ key \in input_data.keys
               /\ isidentifier(key)
               /\ ~(key \in reserved \/ startswith_underscore(key))
               /\ global_admitted(policy, key)
               /\ globals[key] = "absent"
            THEN "input_value" ELSE globals[key]]

\* lines 206-214: the namespace the submitted code starts in
build_exec_globals(req) ==
    inject_input_keys(initial_exec_globals(req.policy), req.input_data, req.policy)

\* what the code leaves in `result` when it runs to its end
result_after(code, globals) ==
    CASE code.kind = "assign_result" -> "code_value"
      [] code.kind = "read_global" -> globals["x"]
      [] code.kind = "circular_result" -> "circular"
      [] code.kind = "result_too_large" -> "too_large"
      [] OTHER -> globals["result"]

\* The builtin name a program looks up, "none" if it names none
NameUsed(code) ==
    CASE code.kind = "exit" -> "SystemExit"
      [] code.kind = "keyboard_interrupt" -> "KeyboardInterrupt"
      [] code.kind = "import" /\ code.form = "dunder_import" -> "__import__"
      [] OTHER -> "none"

\* exec(byte_code, ...) of line 225: the class of what it raises ("none": it returns)
\* and, for SystemExit, the payload. A name missing from the builtins is a NameError.
Raised(class, payload, text) == [class |-> class, payload |-> payload, text |-> text]

exec_raises(code, policy, globals) ==
    IF NameUsed(code) # "none" /\ NameUsed(code) \notin build_safe_builtins(policy)
        THEN Raised("NameError", NonePayload, "")
    ELSE IF code.kind = "read_global" /\ globals["x"] = "absent"
        THEN Raised("NameError", NonePayload, "")
    ELSE CASE code.kind = "exit" -> Raised("SystemExit", code.payload, "")
           [] code.kind = "keyboard_interrupt" -> Raised("KeyboardInterrupt", NonePayload, "")
           [] code.kind = "zero_division" -> Raised("ZeroDivisionError", NonePayload, "")
           [] code.kind = "allocation_fault" -> Raised("MemoryError", NonePayload, "")
           [] code.kind = "import" ->
                LET verdict == safe_import(policy, hook_name(code)) IN
                IF verdict # "delegated" THEN Raised("ImportError", NonePayload, verdict)
                ELSE IF code.name \notin Importable
                    THEN Raised("ModuleNotFoundError", NonePayload, "")
                ELSE Raised("none", NonePayload, "")
           [] OTHER -> Raised("none", NonePayload, "")

\* error_msg = f"{type(exc).__name__}: {exc}" (line 231), by class and, where the
\* import hook raised, its text
error_msg(r) == IF r.text = "" THEN r.class ELSE r.text

\* Python's exception hierarchy: does `except <handler>` catch an exception of class cls
Catches(handler, cls) ==
    CASE handler = "Exception" ->
            cls \in { "NameError", "ZeroDivisionError", "ValueError", "MemoryError",
                      "ImportError", "ModuleNotFoundError" }
      [] OTHER -> cls = handler

\* _normalize_system_exit (lines 133-138); `exit_code in (None, 0)` compares by ==,
\* and 0.0 == 0
normalize_system_exit(exit_code) ==
    IF exit_code.type = "none"
            \/ (exit_code.type \in { "int", "float" } /\ exit_code.value = 0)
        THEN [ok |-> TRUE, code |-> 0, error |-> "none"]
    ELSE IF exit_code.type = "int"
        THEN [ok |-> FALSE, code |-> exit_code.value, error |-> "SystemExit"]
    ELSE [ok |-> FALSE, code |-> 1, error |-> "SystemExit"]

\* json.dumps(resp, default=str) of line 276: "none" or the class it raises
dumps_raises(code) ==
    CASE code.kind = "circular_result" -> "ValueError"
      [] code.kind = "result_too_large" -> "MemoryError"
      [] OTHER -> "none"

\* the JSON object of a response, by the fields that tell the paths apart
Response(ok, resource_exceeded, error) ==
    [ok |-> ok, resource_exceeded |-> resource_exceeded, error |-> error,
     result |-> "None", stdout |-> EmptyText, stderr |-> EmptyText]

\* what exec has left in stdout_buffer and stderr_buffer (lines 216-225) and in the
\* global `printed` when it ends
stdout_buffer(code) == IF "out" \in DOMAIN code THEN code.out ELSE EmptyText
stderr_buffer(code) == IF "err" \in DOMAIN code THEN code.err ELSE EmptyText
printed_text(code) == IF "printed" \in DOMAIN code THEN code.printed ELSE EmptyText
\* traceback.format_exc() of line 234
format_exc == << Run(200, "t") >>
\* max_output_kb * 1024 (lines 243-244, 253)
max_output_bytes(policy) == policy.max_output_kb * 1024

\* the runtime-fault response of lines 237-250
FaultResponse(code, policy, error) ==
    [Response(FALSE, FALSE, error) EXCEPT
        !.stdout = slice(stdout_buffer(code), max_output_bytes(policy)),
        !.stderr = slice(stderr_buffer(code) \o format_exc, max_output_bytes(policy))]

\* the completion response of lines 253-275
CompletionResponse(code, policy, exit, value) ==
    LET norm == IF exit # NoSystemExit THEN normalize_system_exit(exit)
                ELSE [ok |-> TRUE, code |-> 0, error |-> "none"]
        stderr_written ==
            IF exit.type = "str"
            THEN stderr_buffer(code) \o payload_text(exit) \o << Run(1, "newline") >>
            ELSE stderr_buffer(code)
    IN [Response(norm.ok, FALSE, norm.error) EXCEPT
            !.result = value,
            !.stdout = slice(stdout_buffer(code) \o printed_text(code),
                             max_output_bytes(policy)),
            !.stderr = slice(stderr_written, max_output_bytes(policy))]

\* the status of a process that ends through `raise SystemExit(main())`: the low
\* eight bits of the code
exit_status(code) == code % 256

\* no worker process in this run of the program
WorkerOff ==
    /\ wpc = "off"
    /\ wreq = NoRequest
    /\ wout = << >>
    /\ wexit = 0
    /\ wexc = "none"
    /\ system_exit = NoSystemExit
    /\ exec_globals = NoGlobals

\* ----------------------------- execution/docker_engine.py, management API
MANAGED_LABEL_VALUE == "true"

\* Containers the pool did not start: one without the safe_py_runner.managed label,
\* one whose label has another value, and an id the backend does not know.
UnlabelledId == -1
OtherLabelId == -2
NoSuchId == -3
ContainerIds == Names \cup { UnlabelledId, OtherLabelId, NoSuchId }

CompletedProcess(returncode, stdout) == [returncode |-> returncode, stdout |-> stdout]
NoCheck == CompletedProcess(0, "none")
NoCall == [op |-> "none", id |-> 0, stage |-> "idle", check |-> NoCheck, raised |-> "none"]

\* `docker inspect -f '{{ index .Config.Labels "safe_py_runner.managed" }}' id`:
\* the pool labels what it starts (docker_pool.py 261-262), and a stopped pool
\* container is gone (--rm)
docker_inspect(id, live) ==
    IF id \in Names
        THEN IF id \in live THEN CompletedProcess(0, "true\n") ELSE CompletedProcess(1, "")
    ELSE IF id = UnlabelledId THEN CompletedProcess(0, "\n")
    ELSE IF id = OtherLabelId THEN CompletedProcess(0, "false\n")
    ELSE CompletedProcess(1, "")

\* str.strip() over the outputs above
strip(text) ==
    CASE text = "true\n" -> "true"
      [] text = "false\n" -> "false"
      [] text = "\n" -> ""
      [] OTHER -> text

\* a check that reads the return code of the inspect and not its output
ensure_managed_by_returncode(check) ==
    IF check.returncode # 0 THEN "ValueError" ELSE "none"

\* _ensure_managed_container (lines 320-343): what it raises
ensure_managed_container(check) ==
    IF check.returncode # 0 THEN "ValueError"
    ELSE IF strip(check.stdout) # MANAGED_LABEL_VALUE THEN "ValueError"
    ELSE "none"

\* ------------------------------------------------------------------ Init
\* no run_code call, no construction, no resolution in progress
NoRunCode ==
    [stage |-> "idle", policy |-> "None", policy_file |-> "None", resolved |-> "none",
     payload |-> "none", raised |-> "none"]
NoOptions ==
    [docker_context |-> FALSE, docker_host |-> FALSE, ssh_host |-> FALSE,
     ssh_user |-> FALSE, ssh_port |-> FALSE, ssh_key_path |-> FALSE]
NoConstruction == [stage |-> "idle", options |-> NoOptions, raised |-> "none"]

\* An image reference: a repository and, for a package image, the environment key
\* that is its tag.
Ref(repo, tag) == [repo |-> repo, tag |-> tag]
NoRef == Ref("none", << >>)
DefaultRef == Ref(DEFAULT_DOCKER_IMAGE, << >>)
LocalRef == Ref(LOCAL_RUNTIME_IMAGE, << >>)
ExplicitRef == Ref("registry.example/custom:1", << >>)

\* pinned package specs, in the order sorted() puts them
PackageOrder == << "a==1", "b==2" >>
\* validate_pinned_packages (config.py 100-117) on valid specs: sorted(set(packages))
validate_pinned_packages(packages) ==
    SelectSeq(PackageOrder, LAMBDA p : \E i \in DOMAIN packages : packages[i] = p)

\* env_hash (config.py 120-134): the digest of f"{python_version}|{namespace or ''}|
\* {'|'.join(packages)}", kept as the fields it is taken over
env_hash(python_version, packages, namespace) == << python_version, namespace >> \o packages

\* Constructor arguments of the engines whose image is resolved: container_registry
\* (NoRef: none), packages, name ("" : none)
ImageEngines ==
    << [container_registry |-> ExplicitRef, packages |-> << "b==2", "a==1" >>, name |-> ""],
       [container_registry |-> NoRef, packages |-> << "b==2", "a==1" >>, name |-> ""],
       [container_registry |-> NoRef, packages |-> << "a==1", "b==2", "a==1" >>, name |-> ""],
       [container_registry |-> NoRef, packages |-> << >>, name |-> ""] >>
ImageEngineIds == DOMAIN ImageEngines
\* self._packages (docker_engine.py line 93)
packages_of(e) == validate_pinned_packages(ImageEngines[e].packages)
\* f"safe-py-runner-env:{self._environment_key()}" (docker_engine.py 368-372, 389)
package_ref(e) == Ref("safe-py-runner-env", env_hash("3.11", packages_of(e), ImageEngines[e].name))

NoResolve == [pc |-> "idle", e |-> NoEngine, img |-> NoRef, after |-> NoRef]

\* the docker commands of one step under the pool lock, each with the containers it
\* was run for
NoCalls == [inspect |-> {}, rm |-> {}, run |-> {}]

\* the venv directory before anything is in it: no bin/python, no marker file, no
\* package installed
NoMarker == [exists |-> FALSE, text |-> << >>]
NoVenv == [python |-> FALSE, marker |-> NoMarker, site |-> {}]
NoPrep ==
    [stage |-> "idle", venv_manager |-> "none", packages |-> << >>, pip |-> "none",
     raised |-> "none", runs |-> 0]

\* The keys of a policy file that are followed: two scalars and the two blocking
\* lists. A file is the set of keys it gives and its table; a key the file omits
\* holds the blank value in the table, which no reader looks at.
PolicyKeys == { "mode", "timeout_seconds", "blocked_imports", "blocked_builtins" }
BlankTable ==
    [mode |-> "", timeout_seconds |-> 0, blocked_imports |-> << >>,
     blocked_builtins |-> << >>]
\* no policy file at the path; nothing loaded yet
MissingFile == [exists |-> FALSE, keys |-> {}, table |-> BlankTable]
NotLoaded == [stage |-> "idle", from |-> MissingFile, kind |-> "none", policy |-> BlankTable]

PoolInit ==
    /\ by_image = [img \in Images |-> << >>]
    /\ lock = NoLease
    /\ running = {}
    /\ image_of = [n \in Names |-> NoImage]
    /\ next_name = 1
    /\ cached_image = [e \in EngineIds |-> NoImage]
    /\ fleet \in (SUBSET EngineIds) \ {{}}
    /\ pc = [c \in Callers |-> "idle"]
    /\ eng = [c \in Callers |-> NoEngine]
    /\ image = [c \in Callers |-> NoImage]
    /\ to_deadline = [c \in Callers |-> 0]
    /\ lease = [c \in Callers |-> NoLease]
    /\ mark_bad = [c \in Callers |-> FALSE]
    /\ outcome = [c \in Callers |-> NoOutcome]
    /\ result = [c \in Callers |-> NoResult]
    /\ failure = [c \in Callers |-> "none"]
    /\ releases = [c \in Callers |-> 0]
    /\ attempt = [c \in Callers |-> NoAttempt]
    /\ child = [c \in Callers |-> "none"]
    /\ timer = [c \in Callers |-> 0]
    /\ scratch = [n \in Names |-> {}]
    /\ started = [c \in Callers |-> FALSE]
    /\ seen = [c \in Callers |-> {}]
    /\ call = NoCall
    /\ docker_cmds = << >>
    /\ rc = NoRunCode
    /\ ctor = NoConstruction
    /\ rs = [c \in Callers |-> NoResolve]
    /\ cached_ref = [e \in ImageEngineIds |-> NoRef]
    /\ exists = {}
    /\ builds = {}
    /\ first_image = [e \in ImageEngineIds |-> NoRef]
    /\ memory_limit_mb = [c \in Callers |-> 0]
    /\ mem_of = [n \in Names |-> 0]
    /\ locked_calls = [c \in Callers |-> NoCalls]
    /\ venv = NoVenv
    /\ prep = NoPrep
    /\ toml = MissingFile
    /\ loaded = NotLoaded

Init == PoolInit /\ WorkerOff

\* run_code maps the outcome execute hands it (or lets its exception pass) and
\* returns or raises
Finish(c, out, why) ==
    /\ outcome' = [outcome EXCEPT ![c] = out]
    /\ result' = [result EXCEPT ![c] = run_code_result(out)]
    /\ failure' = [failure EXCEPT ![c] = why]
    /\ pc' = [pc EXCEPT ![c] = IF run_code_result(out).kind = "raised" THEN "raised" ELSE "done"]

\* a return or an exception inside execute's try block: the finally block is next
Pending(c, out, why) ==
    /\ outcome' = [outcome EXCEPT ![c] = out]
    /\ failure' = [failure EXCEPT ![c] = why]
    /\ pc' = [pc EXCEPT ![c] = "finally"]
    /\ UNCHANGED result

\* ------------------------------------------- execution/docker_engine.py
\* an execute that resolves its image before it asks whether the backend answers
ExecuteUnavailableAfterResolve(c, e) ==
    /\ pc[c] = "idle"
    /\ e \in fleet
    /\ eng' = [eng EXCEPT ![c] = e]
    /\ cached_image' = [cached_image EXCEPT ![e] = DEFAULT_DOCKER_IMAGE]
    /\ image' = [image EXCEPT ![c] = DEFAULT_DOCKER_IMAGE]
    /\ Finish(c, ExecutionOutcome("empty", 125, FALSE, "docker_unavailable"),
              "backend_unreachable")
    /\ UNCHANGED << by_image, lock, running, image_of, next_name, fleet,
                    to_deadline, lease, mark_bad, releases, attempt >>
    /\ UNCHANGED << workerVars, localVars, scratchVars, mgmtVars, setupVars, envVars >>

\* run_code -> DockerEngine.execute, lines 117-122: the control plane is unreachable
ExecuteUnavailable(c, e) ==
    /\ pc[c] = "idle"
    /\ e \in fleet
    /\ eng' = [eng EXCEPT ![c] = e]
    /\ Finish(c, ExecutionOutcome("empty", 125, FALSE, "docker_unavailable"),
              "backend_unreachable")
    /\ UNCHANGED << poolShared, image, to_deadline, lease, mark_bad, releases, attempt >>
    /\ UNCHANGED << workerVars, localVars, scratchVars, mgmtVars, setupVars, envVars >>

\* _resolve_image: the image, or NoImage when the local build raises RuntimeError.
\* pulled / built are the backend's answers to `docker pull` and `docker build`.
resolve_image(e, pulled, built) ==
    IF cached_image[e] # NoImage THEN cached_image[e]
    ELSE IF Engines[e].container_registry # NoImage THEN Engines[e].container_registry
    ELSE IF pulled THEN DEFAULT_DOCKER_IMAGE
    ELSE IF built THEN LOCAL_RUNTIME_IMAGE
    ELSE NoImage

\* execute lines 117-141 with the control plane reachable: _resolve_image (outside
\* the try block), the settings, and acquire's to_deadline (docker_pool.py line 93)
\* memory is the memory_limit_mb of the payload's policy (line 125).
ExecuteStartWith(c, e, pulled, built, memory) ==
    /\ pc[c] = "idle"
    /\ e \in fleet
    /\ eng' = [eng EXCEPT ![c] = e]
    /\ LET img == resolve_image(e, pulled, built)
           settings == pool_settings(e, TimeoutSeconds)
       IN IF img = NoImage
          THEN /\ Finish(c, ExceptionOutcome, "image_build_failed")
               /\ UNCHANGED << cached_image, image, to_deadline, memory_limit_mb >>
          ELSE /\ cached_image' = [cached_image EXCEPT ![e] = img]
               /\ image' = [image EXCEPT ![c] = img]
               /\ memory_limit_mb' = [memory_limit_mb EXCEPT ![c] = memory]
               /\ to_deadline' = [to_deadline EXCEPT ![c] = settings.acquire_timeout]
               /\ pc' = [pc EXCEPT ![c] = "acq_enter"]
               /\ UNCHANGED << outcome, result, failure >>
    /\ UNCHANGED << by_image, lock, running, image_of, next_name, fleet,
                    lease, mark_bad, releases, attempt >>
    /\ UNCHANGED << workerVars, localVars, scratchVars, mgmtVars, setupVars >>
    /\ UNCHANGED << mem_of, locked_calls, venvVars, policyVars >>

\* a run under the default policy
ExecuteStart(c, e, pulled, built) ==
    ExecuteStartWith(c, e, pulled, built, DefaultPolicy.memory_limit_mb)

\* `with self._lock:` of acquire (line 95)
AcquireEnter(c) ==
    /\ pc[c] = "acq_enter"
    /\ lock = NoLease
    /\ lock' = c
    /\ pc' = [pc EXCEPT ![c] = "acq_locked"]
    /\ UNCHANGED << by_image, running, image_of, next_name, cached_image, fleet,
                    eng, image, to_deadline, lease, mark_bad, outcome, result, history >>
    /\ UNCHANGED << workerVars, localVars, scratchVars, mgmtVars, setupVars, envVars >>

\* One attempt of acquire under the lock (lines 96-131) on the entries of one image:
\* rotate, scan, then create when below pool_size. alive are the containers the
\* liveness probe finds running, fresh is the new container's name, created the
\* backend's answer to `docker run`.
acquire_attempt(entries, settings, alive, fresh, created) ==
    LET rot == rotate_locked(entries, settings)
        sc == scan_from(rot.entries, 1, alive \ rot.removed)
        gone == rot.removed \cup sc.removed
        avail == \/ \E i \in DOMAIN rot.entries :
                       ~rot.entries[i].in_use /\ rot.entries[i].name \in alive
                 \/ HasCapacity(sc.entries, settings)
    IN  IF sc.lease # NoLease
        THEN [how |-> "leased", entries |-> sc.entries, lease |-> sc.lease,
              gone |-> gone, rotated |-> rot.removed, avail |-> avail]
        ELSE IF HasCapacity(sc.entries, settings)
        THEN IF created
             THEN [how |-> "created",
                   entries |-> Append(sc.entries, ContainerEntry(fresh)),
                   lease |-> fresh, gone |-> gone, rotated |-> rot.removed, avail |-> avail]
             ELSE [how |-> "create_failed", entries |-> sc.entries, lease |-> NoLease,
                   gone |-> gone, rotated |-> rot.removed, avail |-> avail]
        ELSE [how |-> "wait", entries |-> sc.entries, lease |-> NoLease,
              gone |-> gone, rotated |-> rot.removed, avail |-> avail]

\* _create_container line 239 and the --memory option of line 257
mem_mb(memory_limit_mb_arg) == Max(128, memory_limit_mb_arg)

\* The docker commands of the attempt: `docker inspect` (_is_running) for every
\* member the scan probed, `docker rm -f` (_stop_and_remove) for every member
\* rotation or the scan removed, `docker run` for the container asked for.
attempt_calls(att, fresh) ==
    [inspect |-> (att.gone \ att.rotated) \cup
                 (IF att.how = "leased" THEN { att.lease } ELSE {}),
     rm |-> att.gone,
     run |-> IF att.how \in { "created", "create_failed" } THEN { fresh } ELSE {}]

\* The attempt as a step of caller c; the lock is released on leaving the with
\* block. A RuntimeError from _create_container is caught at line 214.
AcquireAttempt(c, created) ==
    /\ pc[c] = "acq_locked"
    /\ lock = c
    /\ LET key == PoolKey(image[c])
           att == acquire_attempt(by_image[key], pool_settings(eng[c], TimeoutSeconds),
                                  running, next_name, created /\ next_name <= MaxContainers)
       IN /\ by_image' = [by_image EXCEPT ![key] = att.entries]
          /\ attempt' = [attempt EXCEPT ![c] = [avail |-> att.avail, rotated |-> att.rotated]]
          /\ lease' = [lease EXCEPT ![c] = att.lease]
          /\ IF att.how = "created"
             THEN /\ running' = (running \ att.gone) \cup {next_name}
                  /\ image_of' = [image_of EXCEPT ![next_name] = image[c]]
                  /\ mem_of' = [mem_of EXCEPT ![next_name] = mem_mb(memory_limit_mb[c])]
                  /\ next_name' = next_name + 1
             ELSE /\ running' = running \ att.gone
                  /\ UNCHANGED << image_of, mem_of, next_name >>
          /\ CASE att.how \in { "leased", "created" } ->
                    /\ pc' = [pc EXCEPT ![c] = "run"]
                    /\ to_deadline' = [to_deadline EXCEPT ![c] = 0]
                    /\ UNCHANGED << outcome, result, failure >>
               [] att.how = "create_failed" ->
                    /\ Pending(c, ExecutionOutcome("empty", 125, FALSE, "create_failed"),
                               "container_create_failed")
                    /\ to_deadline' = [to_deadline EXCEPT ![c] = 0]
               [] OTHER ->
                    /\ pc' = [pc EXCEPT ![c] = "acq_check"]
                    /\ UNCHANGED << to_deadline, outcome, result, failure >>
    /\ lock' = NoLease
    /\ UNCHANGED << cached_image, fleet, eng, image, mark_bad, releases >>
    /\ UNCHANGED << workerVars, localVars, scratchVars, mgmtVars, setupVars >>
    /\ UNCHANGED << memory_limit_mb, venvVars, policyVars >>

AcquireLocked(c, created) == AcquireAttempt(c, created) /\ UNCHANGED locked_calls

\* the same step, with the docker commands it issued written down
AcquireLockedLogged(c, created) ==
    /\ AcquireAttempt(c, created)
    /\ LET att == acquire_attempt(by_image[PoolKey(image[c])],
                                  pool_settings(eng[c], TimeoutSeconds),
                                  running, next_name, created /\ next_name <= MaxContainers)
       IN locked_calls' = [locked_calls EXCEPT ![c] = attempt_calls(att, next_name)]

\* lines 133-137: past the to_deadline TimeoutError (caught at line 214), else sleep and retry
\* time.time() >= deadline
DeadlinePassed(left) == left <= 0

AcquireCheck(c) ==
    /\ pc[c] = "acq_check"
    /\ IF DeadlinePassed(to_deadline[c])
       THEN /\ Pending(c, ExecutionOutcome("empty", 125, FALSE, "acquire_timed_out"),
                       "acquire_timeout")
            /\ to_deadline' = [to_deadline EXCEPT ![c] = 0]
       ELSE /\ pc' = [pc EXCEPT ![c] = "acq_enter"]
            /\ UNCHANGED << outcome, result, failure, to_deadline >>
    /\ UNCHANGED << poolShared, eng, image, lease, mark_bad, releases, attempt >>
    /\ UNCHANGED << workerVars, localVars, scratchVars, mgmtVars, setupVars, envVars >>

\* execute lines 142-213 with the lease in hand: workspace preparation (the scratch
\* directory, then the per-run directory), the worker run; what each hands to the
\* finally block. A `docker exec` in a container that no longer runs fails.
RunSteps == { "prep_failed", "worker_timeout", "completed", "exception" }

\* the TimeoutExpired handler (lines 199-207) without `mark_bad = True`
RunOutcomeTimeoutKept(step, w) ==
    CASE step = "prep_failed" ->
            [bad |-> TRUE, why |-> "workspace_prep_failed",
             out |-> ExecutionOutcome("empty", 1, FALSE, "prepare_workspace")]
      [] step = "worker_timeout" ->
            [bad |-> FALSE, why |-> "worker_timeout",
             out |-> ExecutionOutcome("empty", 124, TRUE, "timed_out")]
      [] step = "completed" ->
            [bad |-> FALSE, why |-> "none",
             out |-> ExecutionOutcome(w[1], w[2], FALSE, "none")]
      [] OTHER ->
            [bad |-> FALSE, why |-> "other_exception", out |-> ExceptionOutcome]

RunOutcome(step, w) ==
    CASE step = "prep_failed" ->
            [bad |-> TRUE, why |-> "workspace_prep_failed",
             out |-> ExecutionOutcome("empty", 1, FALSE, "prepare_workspace")]
      [] step = "worker_timeout" ->
            [bad |-> TRUE, why |-> "worker_timeout",
             out |-> ExecutionOutcome("empty", 124, TRUE, "timed_out")]
      [] step = "completed" ->
            [bad |-> FALSE, why |-> "none",
             out |-> ExecutionOutcome(w[1], w[2], FALSE, "none")]
      [] OTHER ->
            [bad |-> FALSE, why |-> "other_exception", out |-> ExceptionOutcome]

RunInContainer(c, step, w) ==
    /\ pc[c] = "run"
    /\ lease[c] \in running \/ step \in { "prep_failed", "exception" }
    /\ step = "completed" \/ w = <<"obj_ok", 0>>
    /\ LET r == RunOutcome(step, w) IN
        /\ mark_bad' = [mark_bad EXCEPT ![c] = r.bad]
        /\ Pending(c, r.out, r.why)
    /\ UNCHANGED << poolShared, eng, image, to_deadline, lease, releases, attempt >>
    /\ UNCHANGED << workerVars, localVars, scratchVars, mgmtVars, setupVars, envVars >>

\* a release placed at the end of the try body, which an exception jumps over
NeedsReleaseOnReturn(c) == lease[c] # NoLease /\ outcome[c].kind = "returned"

\* the finally block (lines 216-224): release only when a lease was taken
NeedsRelease(c) == lease[c] # NoLease

\* The finally block: with a lease, `with self._lock:` of release (line 156);
\* without one execute returns at once.
Finally(c) ==
    /\ pc[c] = "finally"
    /\ IF NeedsRelease(c)
       THEN /\ lock = NoLease
            /\ lock' = c
            /\ pc' = [pc EXCEPT ![c] = "rel_locked"]
            /\ UNCHANGED << outcome, result, failure >>
       ELSE /\ Finish(c, outcome[c], failure[c])
            /\ UNCHANGED lock
    /\ UNCHANGED << by_image, running, image_of, next_name, cached_image, fleet,
                    eng, image, to_deadline, lease, mark_bad, releases, attempt >>
    /\ UNCHANGED << workerVars, localVars, scratchVars, mgmtVars, setupVars, envVars >>

\* release under the lock (lines 157-171), then execute returns or re-raises.
\* `docker rm -f` (_stop_and_remove) is taken to remove the container.
Release(c) ==
    /\ pc[c] = "rel_locked"
    /\ lock = c
    /\ LET key == PoolKey(image[c])
           found == EntryIndex(by_image[key], lease[c]) # 0
       IN /\ by_image' = [by_image EXCEPT ![key] =
                             release_entries(@, lease[c], mark_bad[c])]
          /\ running' = IF found /\ mark_bad[c] THEN running \ {lease[c]} ELSE running
    /\ releases' = [releases EXCEPT ![c] = @ + 1]
    /\ lock' = NoLease
    /\ Finish(c, outcome[c], failure[c])
    /\ UNCHANGED << image_of, next_name, cached_image, fleet, eng, image, to_deadline,
                    lease, mark_bad, attempt >>
    /\ UNCHANGED << workerVars, localVars, scratchVars, mgmtVars, setupVars >>
    /\ UNCHANGED << memory_limit_mb, mem_of, venvVars, policyVars >>

ReleaseLocked(c) == Release(c) /\ UNCHANGED locked_calls

\* the same step, with the docker commands it issued written down
ReleaseLockedLogged(c) ==
    /\ Release(c)
    /\ LET found == EntryIndex(by_image[PoolKey(image[c])], lease[c]) # 0 IN
       locked_calls' = [locked_calls EXCEPT ![c] =
            [NoCalls EXCEPT !.rm = IF found /\ mark_bad[c] THEN { lease[c] } ELSE {}]]

\* run_code has returned or raised; the thread is free for its next call
Return(c) ==
    /\ pc[c] \in { "done", "raised" }
    /\ pc' = [pc EXCEPT ![c] = "idle"]
    /\ eng' = [eng EXCEPT ![c] = NoEngine]
    /\ image' = [image EXCEPT ![c] = NoImage]
    /\ to_deadline' = [to_deadline EXCEPT ![c] = 0]
    /\ lease' = [lease EXCEPT ![c] = NoLease]
    /\ mark_bad' = [mark_bad EXCEPT ![c] = FALSE]
    /\ outcome' = [outcome EXCEPT ![c] = NoOutcome]
    /\ result' = [result EXCEPT ![c] = NoResult]
    /\ failure' = [failure EXCEPT ![c] = "none"]
    /\ releases' = [releases EXCEPT ![c] = 0]
    /\ attempt' = [attempt EXCEPT ![c] = NoAttempt]
    /\ memory_limit_mb' = [memory_limit_mb EXCEPT ![c] = 0]
    /\ UNCHANGED poolShared
    /\ UNCHANGED << workerVars, localVars, scratchVars, mgmtVars, setupVars >>
    /\ UNCHANGED << mem_of, locked_calls, venvVars, policyVars >>

\* ------------------------------------------------------- the environment
\* One second passes (the time.sleep(0.05) of acquire, and everything else): every
\* entry is a second older and idler, every waiting acquire a second nearer its
\* deadline. Ages stop at AgeCap, the largest ttl_seconds any comparison uses.
AgeCap == LET ttls == { pool_settings(e, TimeoutSeconds).ttl_seconds : e \in EngineIds }
          IN CHOOSE m \in ttls : \A x \in ttls : x <= m

Older(entry) ==
    [entry EXCEPT !.age = Min(@ + 1, AgeCap), !.idle = Min(@ + 1, AgeCap)]

Tick ==
    /\ by_image' = [img \in Images |->
                      [i \in DOMAIN by_image[img] |-> Older(by_image[img][i])]]
    /\ to_deadline' = [c \in Callers |-> Max(to_deadline[c] - 1, 0)]
    /\ UNCHANGED << lock, running, image_of, next_name, cached_image, fleet,
                    pc, eng, image, lease, mark_bad, outcome, result, history >>
    /\ UNCHANGED << workerVars, localVars, scratchVars, mgmtVars, setupVars, envVars >>

\* A container stops on its own (`--rm` then deletes it): _is_running turns false.
\* A container that stops while it is leased shows as the failed `docker exec` of
\* that run (RunInContainer's prep_failed); the pool sees its death once it is idle.
Leased(n) ==
    \E img \in Images : \E i \in DOMAIN by_image[img] :
        by_image[img][i].name = n /\ by_image[img][i].in_use

ContainerDies(n) ==
    /\ n \in running
    /\ ~Leased(n)
    /\ running' = running \ {n}
    /\ UNCHANGED << by_image, lock, image_of, next_name, cached_image, fleet,
                    callerLocals, history >>
    /\ UNCHANGED << workerVars, localVars, scratchVars, mgmtVars, setupVars, envVars >>

\* On this host `docker build` of the local runtime image fails; `docker pull` of
\* the published image may succeed or fail.
Next ==
    \/ \E c \in Callers, e \in EngineIds : ExecuteUnavailable(c, e)
    \/ \E c \in Callers, e \in EngineIds, pulled \in BOOLEAN :
            ExecuteStart(c, e, pulled, FALSE)
    \/ \E c \in Callers : AcquireEnter(c)
    \/ \E c \in Callers, created \in BOOLEAN : AcquireLocked(c, created)
    \/ \E c \in Callers : AcquireCheck(c)
    \/ \E c \in Callers, step \in RunSteps, w \in WorkerOutputs : RunInContainer(c, step, w)
    \/ \E c \in Callers : Finally(c)
    \/ \E c \in Callers : ReleaseLocked(c)
    \/ \E c \in Callers : Return(c)
    \/ Tick
    \/ \E n \in Names : ContainerDies(n)

Spec == Init /\ [][Next]_vars

\* ----------------------- execution/docker_pool.py, with the docker commands logged
\* The pool of Spec with every engine constructed, each step under the lock writing
\* down the docker commands it ran. The runs are those that end in a plain release
\* and in a mark_bad release.
InitLogged == PoolInit /\ fleet = EngineIds /\ WorkerOff

NextLogged ==
    \/ \E c \in Callers, e \in EngineIds, pulled \in BOOLEAN :
            ExecuteStart(c, e, pulled, FALSE)
    \/ \E c \in Callers : AcquireEnter(c)
    \/ \E c \in Callers, created \in BOOLEAN : AcquireLockedLogged(c, created)
    \/ \E c \in Callers : AcquireCheck(c)
    \/ \E c \in Callers, step \in { "completed", "worker_timeout" } :
            RunInContainer(c, step, <<"obj_ok", 0>>)
    \/ \E c \in Callers : Finally(c)
    \/ \E c \in Callers : ReleaseLockedLogged(c)
    \/ \E c \in Callers : Return(c)
    \/ Tick
    \/ \E n \in Names : ContainerDies(n)

LoggedSpec == InitLogged /\ [][NextLogged]_vars

\* The same pool on a host where the published image cannot be pulled and the local
\* build succeeds, so that engine 2 runs the locally built image beside engine 1's
\* explicitly named one: two images in one pool.
\* The runs are those that end in a plain release and in a mark_bad release.
InitImages == PoolInit /\ fleet = EngineIds /\ WorkerOff

NextImages ==
    \/ \E c \in Callers, e \in EngineIds : ExecuteStart(c, e, FALSE, TRUE)
    \/ \E c \in Callers : AcquireEnter(c)
    \/ \E c \in Callers, created \in BOOLEAN : AcquireLocked(c, created)
    \/ \E c \in Callers : AcquireCheck(c)
    \/ \E c \in Callers, step \in { "completed", "worker_timeout" } :
            RunInContainer(c, step, <<"obj_ok", 0>>)
    \/ \E c \in Callers : Finally(c)
    \/ \E c \in Callers : ReleaseLocked(c)
    \/ \E c \in Callers : Return(c)
    \/ Tick
    \/ \E n \in Names : ContainerDies(n)

ImagesSpec == InitImages /\ [][NextImages]_vars

\* ----------------------------- execution/docker_engine.py, lines 271-343
\* stop_container / kill_container, first line: _ensure_managed_container
ManageCheck(op, id) ==
    /\ call.stage = "idle"
    /\ LET check == docker_inspect(id, running)
           exc == ensure_managed_container(check)
       IN call' = [op |-> op, id |-> id, check |-> check, raised |-> exc,
                   stage |-> IF exc = "none" THEN "checked" ELSE "done"]
    /\ UNCHANGED << poolShared, callerLocals, history, docker_cmds >>
    /\ UNCHANGED << workerVars, localVars, scratchVars, setupVars, envVars >>

\* the `docker stop -t n id` / `docker kill id` that follows; a nonzero return code
\* raises RuntimeError
ManageAct ==
    /\ call.stage = "checked"
    /\ docker_cmds' = Append(docker_cmds, << call.op, call.id >>)
    /\ running' = running \ { call.id }
    /\ call' = [call EXCEPT !.stage = "done",
                            !.raised = IF call.id \in running THEN "none" ELSE "RuntimeError"]
    /\ UNCHANGED << by_image, lock, image_of, next_name, cached_image, fleet,
                    callerLocals, history >>
    /\ UNCHANGED << workerVars, localVars, scratchVars, setupVars, envVars >>

\* the call returns or raises to its caller
ManageReturn ==
    /\ call.stage = "done"
    /\ call' = NoCall
    /\ docker_cmds' = << >>
    /\ UNCHANGED << poolShared, callerLocals, history >>
    /\ UNCHANGED << workerVars, localVars, scratchVars, setupVars, envVars >>

\* the management API beside one caller's runs in pooled containers
InitManage == PoolInit /\ fleet = EngineIds /\ WorkerOff

NextManage ==
    \/ \E op \in { "stop", "kill" }, id \in ContainerIds : ManageCheck(op, id)
    \/ ManageAct
    \/ ManageReturn
    \/ ExecuteStart(1, 1, FALSE, FALSE)
    \/ AcquireEnter(1)
    \/ AcquireLocked(1, TRUE)
    \/ \E step \in { "completed", "prep_failed" } : RunInContainer(1, step, <<"obj_ok", 0>>)
    \/ Finally(1)
    \/ ReleaseLocked(1)
    \/ Return(1)
    \/ \E n \in Names : ContainerDies(n)

ManageSpec == InitManage /\ [][NextManage]_vars

\* --------------------------------- execution/docker_engine.py, lines 142-213
\* The same lines as RunInContainer, one `docker exec` at a time, with the files of
\* the container's /tmp. A run can leave a plain file, and a file in a directory
\* whose write permission it took away: `rm -rf` cannot unlink that one.
FileKinds == { "plain", "guarded" }

\* `rm -rf /tmp/* ... 2>/dev/null || true`: what is left of `files`
rm_rf(files) == files \cap { "guarded" }

\* lines 142-159: `rm -rf ... || true; mkdir -p /tmp/safe_py_runner` in the leased
\* container. exec_ok: the `docker exec` ran; mkdir_ok: mkdir, whose status is the
\* command's, succeeded.
ClearScratch(c, exec_ok, mkdir_ok) ==
    /\ pc[c] = "run"
    /\ exec_ok => lease[c] \in running
    /\ started' = [started EXCEPT ![c] = FALSE]
    /\ seen' = [seen EXCEPT ![c] = {}]
    /\ scratch' = IF exec_ok THEN [scratch EXCEPT ![lease[c]] = rm_rf(@)] ELSE scratch
    /\ IF exec_ok /\ mkdir_ok
       THEN /\ pc' = [pc EXCEPT ![c] = "prep_dir"]
            /\ UNCHANGED << mark_bad, outcome, result, failure >>
       ELSE /\ mark_bad' = [mark_bad EXCEPT ![c] = TRUE]
            /\ Pending(c, ExecutionOutcome("empty", 1, FALSE, "prepare_workspace"),
                        "workspace_prep_failed")
    /\ UNCHANGED << poolShared, eng, image, to_deadline, lease, releases, attempt >>
    /\ UNCHANGED << workerVars, localVars, mgmtVars, setupVars, envVars >>

\* lines 160-170: `mkdir -p /tmp/safe_py_runner/run_<ms>`
MakeRunDir(c, ok) ==
    /\ pc[c] = "prep_dir"
    /\ ok => lease[c] \in running
    /\ IF ok
       THEN /\ pc' = [pc EXCEPT ![c] = "worker"]
            /\ UNCHANGED << mark_bad, outcome, result, failure >>
       ELSE /\ mark_bad' = [mark_bad EXCEPT ![c] = TRUE]
            /\ Pending(c, ExecutionOutcome("empty", 1, FALSE, "create_run_workspace"),
                        "workspace_prep_failed")
    /\ UNCHANGED << poolShared, eng, image, to_deadline, lease, releases, attempt >>
    /\ UNCHANGED << workerVars, localVars, scratchVars, mgmtVars, setupVars, envVars >>

\* lines 172-213: the worker runs in the container; `wrote` is what it leaves in /tmp
RunWorker(c, step, wrote) ==
    /\ pc[c] = "worker"
    /\ lease[c] \in running
    /\ started' = [started EXCEPT ![c] = TRUE]
    /\ seen' = [seen EXCEPT ![c] = scratch[lease[c]]]
    /\ scratch' = [scratch EXCEPT ![lease[c]] = @ \cup wrote]
    /\ LET r == RunOutcome(step, <<"obj_ok", 0>>) IN
        /\ mark_bad' = [mark_bad EXCEPT ![c] = r.bad]
        /\ Pending(c, r.out, r.why)
    /\ UNCHANGED << poolShared, eng, image, to_deadline, lease, releases, attempt >>
    /\ UNCHANGED << workerVars, localVars, mgmtVars, setupVars, envVars >>

InitWorkspace == PoolInit /\ fleet = EngineIds /\ WorkerOff

NextWorkspace ==
    \/ \E c \in Callers : ExecuteStart(c, 1, FALSE, FALSE)
    \/ \E c \in Callers : AcquireEnter(c)
    \/ \E c \in Callers : AcquireLocked(c, TRUE)
    \/ \E c \in Callers, exec_ok, mkdir_ok \in BOOLEAN : ClearScratch(c, exec_ok, mkdir_ok)
    \/ \E c \in Callers, ok \in BOOLEAN : MakeRunDir(c, ok)
    \/ \E c \in Callers, step \in { "completed", "worker_timeout" },
            wrote \in SUBSET FileKinds : RunWorker(c, step, wrote)
    \/ \E c \in Callers : Finally(c)
    \/ \E c \in Callers : ReleaseLocked(c)
    \/ \E c \in Callers : Return(c)

WorkspaceSpec == InitWorkspace /\ [][NextWorkspace]_vars

\* ------------------------------------------- execution/local_engine.py
\* LocalEngine.execute, lines 62-72: subprocess.run starts the worker with
\* timeout = max(1, int(request.timeout_seconds))
LocalExecute(c) ==
    /\ pc[c] = "idle"
    /\ pc' = [pc EXCEPT ![c] = "local_run"]
    /\ eng' = [eng EXCEPT ![c] = LocalEngineId]
    /\ child' = [child EXCEPT ![c] = "running"]
    /\ timer' = [timer EXCEPT ![c] = Max(1, TimeoutSeconds)]
    /\ UNCHANGED << poolShared, image, to_deadline, lease, mark_bad, outcome, result,
                    history, workerVars, scratchVars, mgmtVars, setupVars, envVars >>

\* the worker ends before the timeout: lines 81-86
LocalWorkerExits(c, w) ==
    /\ pc[c] = "local_run"
    /\ timer[c] > 0
    /\ child' = [child EXCEPT ![c] = "exited"]
    /\ Finish(c, ExecutionOutcome(w[1], w[2], FALSE, "none"), "none")
    /\ UNCHANGED << poolShared, eng, image, to_deadline, lease, mark_bad, releases,
                    attempt, timer, workerVars, scratchVars, mgmtVars, setupVars, envVars >>

\* the timeout expires with the worker still running: subprocess.run kills the child,
\* waits for it and raises TimeoutExpired, which lines 73-80 turn into the outcome
LocalTimeout(c) ==
    /\ pc[c] = "local_run"
    /\ timer[c] = 0
    /\ child[c] = "running"
    /\ child' = [child EXCEPT ![c] = "killed"]
    /\ Finish(c, ExecutionOutcome("empty", 124, TRUE, "timed_out"), "worker_timeout")
    /\ UNCHANGED << poolShared, eng, image, to_deadline, lease, mark_bad, releases,
                    attempt, timer, workerVars, scratchVars, mgmtVars, setupVars, envVars >>

\* a second passes for the running subprocess.run calls
LocalTick ==
    /\ \E c \in Callers : pc[c] = "local_run" /\ timer[c] > 0
    /\ timer' = [c \in Callers |-> IF pc[c] = "local_run" THEN Max(timer[c] - 1, 0)
                                    ELSE timer[c]]
    /\ UNCHANGED << poolShared, callerLocals, history, workerVars, child, scratchVars, mgmtVars, setupVars, envVars >>

\* --------------------------------------------------- execution/engine.py
\* run_code with an engine of another class: execute hands back any outcome
StdoutShapes == { "empty", "obj_ok", "obj_fail", "not_json", "non_object" }
OtherOutcomes ==
    { ExecutionOutcome(s, 0, t, err) :
        s \in StdoutShapes, t \in BOOLEAN, err \in { "none", "timed_out" } }

EngineReturns(c, out) ==
    /\ pc[c] = "idle"
    /\ eng' = [eng EXCEPT ![c] = OtherEngineId]
    /\ Finish(c, out, IF out.timed_out THEN "worker_timeout" ELSE "none")
    /\ UNCHANGED << poolShared, image, to_deadline, lease, mark_bad, releases, attempt,
                    workerVars, localVars, scratchVars, mgmtVars, setupVars, envVars >>

\* --------------------------------- execution/docker_engine.py, construction
\* The connection options of DockerEngine(...): TRUE is a truthy value (a non-empty
\* string, a nonzero port), FALSE is None or another falsy value.
ConnectionOptions ==
    [docker_context : BOOLEAN, docker_host : BOOLEAN, ssh_host : BOOLEAN,
     ssh_user : BOOLEAN, ssh_port : BOOLEAN, ssh_key_path : BOOLEAN]

\* a validation that knows the context conflict and the ssh_user rule only
validate_connection_options_short(o) ==
    IF o.docker_context /\ (o.docker_host \/ o.ssh_host) THEN "ValueError"
    ELSE IF o.ssh_user /\ ~o.ssh_host THEN "ValueError"
    ELSE "none"

\* _validate_connection_options (lines 508-523): what it raises
validate_connection_options(o) ==
    IF o.docker_context /\ (o.docker_host \/ o.ssh_host) THEN "ValueError"
    ELSE IF o.ssh_user /\ ~o.ssh_host THEN "ValueError"
    ELSE IF o.ssh_port /\ ~o.ssh_host THEN "ValueError"
    ELSE IF o.ssh_key_path /\ ~o.ssh_host THEN "ValueError"
    ELSE "none"

\* the engine the program constructs while it runs
NewEngineId == 1

\* DockerEngine.__init__ (lines 69-107): validate_pinned_packages, the assignments,
\* _validate_connection_options; an exception leaves the program without the object
Construct(options, pinned) ==
    /\ ctor.stage = "idle"
    /\ NewEngineId \notin fleet
    /\ LET raised == IF ~pinned THEN "ValueError" ELSE validate_connection_options(options)
       IN /\ ctor' = [stage |-> IF raised = "none" THEN "constructed" ELSE "raised",
                      options |-> options, raised |-> raised]
          /\ fleet' = IF raised = "none" THEN fleet \cup { NewEngineId } ELSE fleet
    /\ UNCHANGED << by_image, lock, running, image_of, next_name, cached_image >>
    /\ UNCHANGED << rc, resolveVars >>
    /\ UNCHANGED << callerLocals, history, workerVars, localVars, scratchVars, mgmtVars, envVars >>

\* a program that constructs a DockerEngine and, if it got one, runs code on it
InitConstruct == PoolInit /\ fleet = EngineIds \ { NewEngineId } /\ WorkerOff

NextConstruct ==
    \/ \E o \in ConnectionOptions, pinned \in BOOLEAN : Construct(o, pinned)
    \/ ExecuteStart(1, NewEngineId, FALSE, FALSE)
    \/ AcquireEnter(1)
    \/ AcquireLocked(1, TRUE)
    \/ \E step \in { "completed", "prep_failed" } : RunInContainer(1, step, << "obj_ok", 0 >>)
    \/ Finally(1)
    \/ ReleaseLocked(1)
    \/ Return(1)

ConstructSpec == InitConstruct /\ [][NextConstruct]_vars

\* ------------------------- execution/docker_engine.py, _resolve_image by steps
\* `return image` of _resolve_image, and the record of the engine's first result
Returns(c, img) ==
    /\ rs' = [rs EXCEPT ![c].pc = "returned", ![c].img = img]
    /\ first_image' = IF first_image[rs[c].e] = NoRef
                       THEN [first_image EXCEPT ![rs[c].e] = img] ELSE first_image

\* RuntimeError out of _resolve_image
Raises(c) ==
    /\ rs' = [rs EXCEPT ![c].pc = "raised"]
    /\ UNCHANGED first_image

\* self._cached_image = img
Caches(c, img) == cached_ref' = [cached_ref EXCEPT ![rs[c].e] = img]

\* lines 383-384: a caller enters _resolve_image of engine e and reads the cache
ResolveEnter(c, e) ==
    /\ rs[c].pc \in { "idle", "returned", "raised" }
    /\ rs' = [rs EXCEPT ![c] =
                [pc |-> IF cached_ref[e] # NoRef THEN "returned" ELSE "uncached",
                 e |-> e, img |-> cached_ref[e], after |-> first_image[e]]]
    /\ UNCHANGED << cached_ref, exists, builds, first_image >>
    /\ UNCHANGED << rc, ctor >>
    /\ UNCHANGED << poolShared, callerLocals, history, workerVars, localVars, scratchVars,
                    mgmtVars, envVars >>

\* lines 385-388: the explicit reference is cached, then inspected and pulled if
\* absent; the answer of _ensure_image_available is not used
ResolveExplicit(c, pulled) ==
    /\ rs[c].pc = "uncached"
    /\ ImageEngines[rs[c].e].container_registry # NoRef
    /\ LET img == ImageEngines[rs[c].e].container_registry IN
        /\ Caches(c, img)
        /\ exists' = IF img \notin exists /\ pulled THEN exists \cup { img } ELSE exists
        /\ Returns(c, img)
    /\ UNCHANGED builds
    /\ UNCHANGED << rc, ctor >>
    /\ UNCHANGED << poolShared, callerLocals, history, workerVars, localVars, scratchVars,
                    mgmtVars, envVars >>

\* lines 389-393 with _ensure_package_image lines 440-441: `docker image inspect tag`
ResolvePackageInspect(c) ==
    /\ rs[c].pc = "uncached"
    /\ ImageEngines[rs[c].e].container_registry = NoRef
    /\ packages_of(rs[c].e) # << >>
    /\ IF package_ref(rs[c].e) \in exists
       THEN /\ Caches(c, package_ref(rs[c].e))
            /\ Returns(c, package_ref(rs[c].e))
       ELSE /\ rs' = [rs EXCEPT ![c].pc = "package_base"]
            /\ UNCHANGED << cached_ref, first_image >>
    /\ UNCHANGED << exists, builds >>
    /\ UNCHANGED << rc, ctor >>
    /\ UNCHANGED << poolShared, callerLocals, history, workerVars, localVars, scratchVars,
                    mgmtVars, envVars >>

\* _ensure_package_image lines 442-445: the base image is the published one if it is
\* present or can be pulled, else the local build, which may fail
ResolvePackageBase(c, pulled, built) ==
    /\ rs[c].pc = "package_base"
    /\ IF DefaultRef \in exists \/ pulled
       THEN /\ exists' = exists \cup { DefaultRef }
            /\ rs' = [rs EXCEPT ![c].pc = "package_build"]
            /\ UNCHANGED << builds, first_image >>
       ELSE /\ builds' = builds \cup { [image |-> LocalRef, existed |-> LocalRef \in exists] }
            /\ IF built
               THEN /\ exists' = exists \cup { LocalRef }
                    /\ rs' = [rs EXCEPT ![c].pc = "package_build"]
                    /\ UNCHANGED first_image
               ELSE /\ Raises(c)
                    /\ UNCHANGED exists
    /\ UNCHANGED cached_ref
    /\ UNCHANGED << rc, ctor >>
    /\ UNCHANGED << poolShared, callerLocals, history, workerVars, localVars, scratchVars,
                    mgmtVars, envVars >>

\* _ensure_package_image lines 446-462 and _resolve_image lines 392-393: `docker
\* build -t tag`, then the tag is cached and returned
ResolvePackageBuild(c, built) ==
    /\ rs[c].pc = "package_build"
    /\ LET img == package_ref(rs[c].e) IN
        /\ builds' = builds \cup { [image |-> img, existed |-> img \in exists] }
        /\ IF built
           THEN /\ exists' = exists \cup { img }
                /\ Caches(c, img)
                /\ Returns(c, img)
           ELSE /\ Raises(c)
                /\ UNCHANGED << exists, cached_ref >>
    /\ UNCHANGED << rc, ctor >>
    /\ UNCHANGED << poolShared, callerLocals, history, workerVars, localVars, scratchVars,
                    mgmtVars, envVars >>

\* line 395 with _ensure_image_available lines 411-413: `docker image inspect` of the
\* published image
ResolveDefaultInspect(c) ==
    /\ rs[c].pc = "uncached"
    /\ ImageEngines[rs[c].e].container_registry = NoRef
    /\ packages_of(rs[c].e) = << >>
    /\ IF DefaultRef \in exists
       THEN /\ Caches(c, DefaultRef)
            /\ Returns(c, DefaultRef)
       ELSE /\ rs' = [rs EXCEPT ![c].pc = "pull"]
            /\ UNCHANGED << cached_ref, first_image >>
    /\ UNCHANGED << exists, builds >>
    /\ UNCHANGED << rc, ctor >>
    /\ UNCHANGED << poolShared, callerLocals, history, workerVars, localVars, scratchVars,
                    mgmtVars, envVars >>

\* _ensure_image_available lines 414-415 and _resolve_image lines 395-397: `docker
\* pull` of the published image
ResolveDefaultPull(c, pulled) ==
    /\ rs[c].pc = "pull"
    /\ IF pulled
       THEN /\ exists' = exists \cup { DefaultRef }
            /\ Caches(c, DefaultRef)
            /\ Returns(c, DefaultRef)
       ELSE /\ rs' = [rs EXCEPT ![c].pc = "build_local"]
            /\ UNCHANGED << exists, cached_ref, first_image >>
    /\ UNCHANGED builds
    /\ UNCHANGED << rc, ctor >>
    /\ UNCHANGED << poolShared, callerLocals, history, workerVars, localVars, scratchVars,
                    mgmtVars, envVars >>

\* lines 399-401 with _build_local_runtime_image: `docker build` of the local image
ResolveBuildLocal(c, built) ==
    /\ rs[c].pc = "build_local"
    /\ builds' = builds \cup { [image |-> LocalRef, existed |-> LocalRef \in exists] }
    /\ IF built
       THEN /\ exists' = exists \cup { LocalRef }
            /\ Caches(c, LocalRef)
            /\ Returns(c, LocalRef)
       ELSE /\ Raises(c)
            /\ UNCHANGED << exists, cached_ref >>
    /\ UNCHANGED << rc, ctor >>
    /\ UNCHANGED << poolShared, callerLocals, history, workerVars, localVars, scratchVars,
                    mgmtVars, envVars >>

\* the callers' runs resolve the images of the engines of ImageEngines
InitResolve == PoolInit /\ fleet = EngineIds /\ WorkerOff

NextResolve ==
    \/ \E c \in Callers, e \in ImageEngineIds : ResolveEnter(c, e)
    \/ \E c \in Callers, pulled \in BOOLEAN : ResolveExplicit(c, pulled)
    \/ \E c \in Callers : ResolvePackageInspect(c)
    \/ \E c \in Callers, pulled \in BOOLEAN, built \in BOOLEAN : ResolvePackageBase(c, pulled, built)
    \/ \E c \in Callers, built \in BOOLEAN : ResolvePackageBuild(c, built)
    \/ \E c \in Callers : ResolveDefaultInspect(c)
    \/ \E c \in Callers, pulled \in BOOLEAN : ResolveDefaultPull(c, pulled)
    \/ \E c \in Callers, built \in BOOLEAN : ResolveBuildLocal(c, built)

ResolveSpec == InitResolve /\ [][NextResolve]_vars

\* ------------------------------------------------------------- runner.py
\* run_code's arguments: policy is None, a RunnerPolicy, or a RunnerPolicy that has a
\* config_path; policy_file is None or a path; input_data is None, {} or a dict with keys
PolicyArgs == { "None", "inline", "inline_config_path" }
PolicyFileArgs == { "None", "path" }
InputArgs == { "None", "empty", "keys" }

\* a _resolve_policy in which an inline policy wins over a policy file
resolve_policy_inline_first(policy, policy_file, readable) ==
    IF policy = "None" /\ policy_file # "None"
        THEN IF readable THEN "from_file" ELSE "raise_from_file"
    ELSE IF policy = "None" THEN "default"
    ELSE IF policy = "inline_config_path"
        THEN IF readable THEN "from_file" ELSE "raise_from_file"
    ELSE "inline"

\* _resolve_policy (lines 12-28): where the effective policy comes from, or what is
\* raised; `readable` tells whether RunnerPolicy.from_file succeeds
resolve_policy(policy, policy_file, readable) ==
    IF policy # "None" /\ policy_file # "None" THEN "raise_ValueError"
    ELSE IF policy = "None" /\ policy_file # "None"
        THEN IF readable THEN "from_file" ELSE "raise_from_file"
    ELSE IF policy = "None" THEN "default"
    ELSE IF policy = "inline_config_path"
        THEN IF readable THEN "from_file" ELSE "raise_from_file"
    ELSE "inline"

\* _build_payload (lines 31-55): `input_data or {}`
build_payload(input_data) == IF input_data = "keys" THEN "input_keys" ELSE "input_empty"

\* a call run_code(code, engine, input_data, policy, policy_file) begins
RunCodeCall(policy, policy_file) ==
    /\ rc.stage = "idle"
    /\ rc' = [rc EXCEPT !.stage = "resolve", !.policy = policy, !.policy_file = policy_file]
    /\ UNCHANGED << ctor, resolveVars >>
    /\ UNCHANGED << poolShared, callerLocals, history, workerVars, localVars, scratchVars,
                    mgmtVars, envVars >>

\* line 74: resolved_policy = _resolve_policy(policy, policy_file)
RunCodeResolve(readable) ==
    /\ rc.stage = "resolve"
    /\ LET got == resolve_policy(rc.policy, rc.policy_file, readable) IN
        IF got = "raise_ValueError"
            THEN rc' = [rc EXCEPT !.stage = "raised", !.raised = "ValueError"]
        ELSE IF got = "raise_from_file"
            THEN rc' = [rc EXCEPT !.stage = "raised", !.raised = "from_file"]
        ELSE rc' = [rc EXCEPT !.stage = "preflight", !.resolved = got]
    /\ UNCHANGED << ctor, resolveVars >>
    /\ UNCHANGED << poolShared, callerLocals, history, workerVars, localVars, scratchVars,
                    mgmtVars, envVars >>

\* line 75: preflight_validate_backend_capabilities, which raises nothing
RunCodePreflight ==
    /\ rc.stage = "preflight"
    /\ rc' = [rc EXCEPT !.stage = "payload"]
    /\ UNCHANGED << ctor, resolveVars >>
    /\ UNCHANGED << poolShared, callerLocals, history, workerVars, localVars, scratchVars,
                    mgmtVars, envVars >>

\* line 76: payload = _build_payload(code, input_data, resolved_policy)
RunCodeBuildPayload(input_data) ==
    /\ rc.stage = "payload"
    /\ rc' = [rc EXCEPT !.stage = "execute", !.payload = build_payload(input_data)]
    /\ UNCHANGED << ctor, resolveVars >>
    /\ UNCHANGED << poolShared, callerLocals, history, workerVars, localVars, scratchVars,
                    mgmtVars, envVars >>

\* lines 77-120: engine.execute is called and its outcome mapped
RunCodeExecute(c, out) ==
    /\ rc.stage = "execute"
    /\ pc[c] = "idle"
    /\ rc' = [rc EXCEPT !.stage = "executed"]
    /\ eng' = [eng EXCEPT ![c] = OtherEngineId]
    /\ Finish(c, out, IF out.timed_out THEN "worker_timeout" ELSE "none")
    /\ UNCHANGED << ctor, resolveVars >>
    /\ UNCHANGED << poolShared, image, to_deadline, lease, mark_bad, releases, attempt,
                    workerVars, localVars, scratchVars, mgmtVars, envVars >>

InitRunCode == PoolInit /\ fleet = EngineIds /\ WorkerOff

NextRunCode ==
    \/ \E p \in PolicyArgs, f \in PolicyFileArgs : RunCodeCall(p, f)
    \/ \E readable \in BOOLEAN : RunCodeResolve(readable)
    \/ RunCodePreflight
    \/ \E input_data \in InputArgs : RunCodeBuildPayload(input_data)
    \/ \E out \in OtherOutcomes : RunCodeExecute(1, out)

RunCodeSpec == InitRunCode /\ [][NextRunCode]_vars

\* run_code over the three kinds of engine; the container runs are those of engine 1
\* that complete or time out
InitEngines == PoolInit /\ fleet = EngineIds /\ WorkerOff

NextEngines ==
    \/ \E c \in Callers : LocalExecute(c)
    \/ \E c \in Callers, w \in WorkerOutputs : LocalWorkerExits(c, w)
    \/ \E c \in Callers : LocalTimeout(c)
    \/ LocalTick
    \/ \E c \in Callers, out \in OtherOutcomes : EngineReturns(c, out)
    \/ \E c \in Callers : ExecuteStart(c, 1, FALSE, FALSE)
    \/ \E c \in Callers : AcquireEnter(c)
    \/ \E c \in Callers : AcquireLocked(c, TRUE)
    \/ \E c \in Callers, step \in { "completed", "worker_timeout" } :
            RunInContainer(c, step, <<"obj_ok", 0>>)
    \/ \E c \in Callers : Finally(c)
    \/ \E c \in Callers : ReleaseLocked(c)
    \/ \E c \in Callers : Return(c)

EnginesSpec == InitEngines /\ [][NextEngines]_vars

\* -------------------------------------------------- worker.py, main()
\* sys.stdout.write(json.dumps(...)) followed by `return code`
WriteAndReturn(resp, code) ==
    /\ wout' = Append(wout, resp)
    /\ wexit' = code
    /\ wpc' = "returned"

\* lines 159-173: the request is read and its fields taken
WorkerStart ==
    /\ wpc = "start"
    /\ wpc' = "check_mode"
    /\ UNCHANGED << wreq, wout, wexit, wexc, system_exit, exec_globals >>
    /\ UNCHANGED << poolShared, callerLocals, history, localVars, scratchVars, mgmtVars, setupVars, envVars >>

\* lines 176-184: an unknown mode raises ValueError inside the try body
WorkerCheckMode ==
    /\ wpc = "check_mode"
    /\ IF wreq.policy.mode \notin { "allow", "restrict" }
       THEN /\ wexc' = "ValueError"
            /\ wpc' = "except"
       ELSE /\ wpc' = "compile"
            /\ UNCHANGED wexc
    /\ UNCHANGED << wreq, wout, wexit, system_exit, exec_globals >>
    /\ UNCHANGED << poolShared, callerLocals, history, localVars, scratchVars, mgmtVars, setupVars, envVars >>

\* a compile that accepts every source text
compile_accepts_all(code) == "none"

\* compile(code, "<user_code>", "exec") of line 187: "none" or the class it raises
compile_raises(code) == IF code.kind = "syntax_error" THEN "SyntaxError" ELSE "none"

\* lines 187-214: compile; a SyntaxError is answered here, otherwise the namespace
\* of the code is built
WorkerCompile ==
    /\ wpc = "compile"
    /\ IF compile_raises(wreq.code) = "SyntaxError"
       THEN /\ WriteAndReturn(Response(FALSE, FALSE, "SyntaxError"), 1)
            /\ UNCHANGED exec_globals
       ELSE /\ wpc' = "exec"
            /\ exec_globals' = build_exec_globals(wreq)
            /\ UNCHANGED << wout, wexit >>
    /\ UNCHANGED << wreq, wexc, system_exit >>
    /\ UNCHANGED << poolShared, callerLocals, history, localVars, scratchVars, mgmtVars, setupVars, envVars >>

\* lines 206-251: exec under `except SystemExit` and `except Exception`; anything
\* else leaves the inner try and meets the outer handlers
WorkerExec ==
    /\ wpc = "exec"
    /\ LET r == exec_raises(wreq.code, wreq.policy, exec_globals) IN
        CASE r.class = "none" ->
                /\ wpc' = "respond"
                /\ exec_globals' =
                        [exec_globals EXCEPT !["result"] = result_after(wreq.code, exec_globals)]
                /\ UNCHANGED << wout, wexit, wexc, system_exit >>
          [] Catches("SystemExit", r.class) ->
                /\ system_exit' = r.payload
                /\ wpc' = "respond"
                /\ UNCHANGED << wout, wexit, wexc, exec_globals >>
          [] Catches("Exception", r.class) ->
                /\ WriteAndReturn(FaultResponse(wreq.code, wreq.policy, error_msg(r)), 1)
                /\ UNCHANGED << wexc, system_exit, exec_globals >>
          [] OTHER ->
                /\ wexc' = r.class
                /\ wpc' = "except"
                /\ UNCHANGED << wout, wexit, system_exit, exec_globals >>
    /\ UNCHANGED wreq
    /\ UNCHANGED << poolShared, callerLocals, history, localVars, scratchVars, mgmtVars, setupVars, envVars >>

\* lines 253-277: the response of a run that ended or exited; json.dumps may raise
WorkerRespond ==
    /\ wpc = "respond"
    /\ LET norm == IF system_exit # NoSystemExit THEN normalize_system_exit(system_exit)
                   ELSE [ok |-> TRUE, code |-> 0, error |-> "none"]
       IN IF dumps_raises(wreq.code) # "none"
          THEN /\ wexc' = dumps_raises(wreq.code)
               /\ wpc' = "except"
               /\ UNCHANGED << wout, wexit >>
          ELSE /\ WriteAndReturn(CompletionResponse(wreq.code, wreq.policy, system_exit,
                                                    exec_globals["result"]), norm.code)
               /\ UNCHANGED wexc
    /\ UNCHANGED << wreq, system_exit, exec_globals >>
    /\ UNCHANGED << poolShared, callerLocals, history, localVars, scratchVars, mgmtVars, setupVars, envVars >>

\* lines 279-309: `except MemoryError`, then `except Exception`; what neither catches
\* leaves main and ends the process with a traceback
WorkerExcept ==
    /\ wpc = "except"
    /\ CASE Catches("MemoryError", wexc) ->
                WriteAndReturn(Response(FALSE, TRUE, "Memory limit exceeded"), 2)
         [] Catches("Exception", wexc) ->
                WriteAndReturn(Response(FALSE, FALSE, wexc), 1)
         [] OTHER ->
                /\ wpc' = "escaped"
                /\ wexit' = 1
                /\ UNCHANGED wout
    /\ UNCHANGED << wreq, wexc, system_exit, exec_globals >>
    /\ UNCHANGED << poolShared, callerLocals, history, localVars, scratchVars, mgmtVars, setupVars, envVars >>

WorkerInit ==
    /\ PoolInit
    /\ fleet = EngineIds
    /\ wpc = "start"
    /\ wreq \in Requests
    /\ wout = << >>
    /\ wexit = 0
    /\ wexc = "none"
    /\ system_exit = NoSystemExit
    /\ exec_globals = NoGlobals

WorkerNext ==
    \/ WorkerStart
    \/ WorkerCheckMode
    \/ WorkerCompile
    \/ WorkerExec
    \/ WorkerRespond
    \/ WorkerExcept

WorkerSpec == WorkerInit /\ [][WorkerNext]_vars

\* the worker on requests that import a module under policies that differ in mode
\* and import lists
ImportInit ==
    /\ PoolInit
    /\ fleet = EngineIds
    /\ wpc = "start"
    /\ wreq \in ImportRequests
    /\ wout = << >>
    /\ wexit = 0
    /\ wexc = "none"
    /\ system_exit = NoSystemExit
    /\ exec_globals = NoGlobals

ImportSpec == ImportInit /\ [][WorkerNext]_vars

\* the worker on requests that differ in input_data and in the policy's global-name
\* lists and extra_globals
GlobalsInit ==
    /\ PoolInit
    /\ fleet = EngineIds
    /\ wpc = "start"
    /\ wreq \in GlobalsRequests
    /\ wout = << >>
    /\ wexit = 0
    /\ wexc = "none"
    /\ system_exit = NoSystemExit
    /\ exec_globals = NoGlobals

GlobalsSpec == GlobalsInit /\ [][WorkerNext]_vars

\* the shape of the JSON object the worker wrote, as run_code reads it
stdout_shape(resp) == IF resp.ok THEN "obj_ok" ELSE "obj_fail"

\* the outcome an engine builds from a worker process that ended within the timeout:
\* its stdout and its exit status
worker_outcome(resp, code) ==
    ExecutionOutcome(stdout_shape(resp), exit_status(code), FALSE, "none")

\* the worker on requests that differ in what the code writes, in how it ends and in
\* the policy's max_output_kb
OutputInit ==
    /\ PoolInit
    /\ fleet = EngineIds
    /\ wpc = "start"
    /\ wreq \in OutputRequests
    /\ wout = << >>
    /\ wexit = 0
    /\ wexc = "none"
    /\ system_exit = NoSystemExit
    /\ exec_globals = NoGlobals

OutputSpec == OutputInit /\ [][WorkerNext]_vars

\* ------------------------------------- execution/local_engine.py, construction
\* constructions of LocalEngine the program makes in one run
MaxPrepares == 3

\* the `packages` arguments: None, and lists of pinned specs in any order
LocalPackages ==
    { << >>, << "a==1" >>, << "b==2" >>, << "b==2", "a==1" >>, << "a==1", "b==2", "a==1" >> }
VenvManagers == { "uv", "python", "conda" }

\* "\n".join(self._packages) + "\n" (line 120), as the lines and the newlines
RECURSIVE desired_text(_)
desired_text(packages) ==
    IF packages = << >> THEN << "\n" >>
    ELSE IF Len(packages) = 1 THEN << packages[1], "\n" >>
    ELSE << packages[1], "\n" >> \o desired_text(Tail(packages))

\* an install step taken whenever packages are asked for
needs_install_always(marker, packages) == TRUE

\* line 121: not marker.exists() or marker.read_text() != desired
needs_install(marker, packages) ==
    ~marker.exists \/ marker.text # desired_text(packages)

\* LocalEngine.__init__ (lines 46-52) with _prepare_environment (lines 95-130):
\* venv_dir is whether the stripped argument is non-empty; created and installed are
\* the return codes of the venv command and of pip being 0.
LocalConstruct(venv_dir, venv_manager, packages, created, installed) ==
    /\ prep.runs < MaxPrepares
    /\ LET pinned == validate_pinned_packages(packages)
           makes == ~venv.python
           venv_raised == IF ~makes THEN "none"
                          ELSE IF venv_manager \notin { "uv", "python" } THEN "ValueError"
                          ELSE IF ~created THEN "RuntimeError" ELSE "none"
           pip == IF pinned # << >> /\ needs_install(venv.marker, pinned)
                  THEN (IF installed THEN "ok" ELSE "failed") ELSE "none"
       IN IF ~venv_dir
          THEN /\ prep' = [stage |-> "raised", venv_manager |-> "none", packages |-> << >>,
                           pip |-> "none", raised |-> "ValueError", runs |-> prep.runs + 1]
               /\ UNCHANGED venv
          ELSE IF venv_raised # "none"
          THEN /\ prep' = [stage |-> "raised", venv_manager |-> venv_manager,
                           packages |-> pinned, pip |-> "none",
                           raised |-> venv_raised, runs |-> prep.runs + 1]
               /\ UNCHANGED venv
          ELSE /\ prep' = [stage |-> IF pip = "failed" THEN "raised" ELSE "constructed",
                           venv_manager |-> venv_manager, packages |-> pinned, pip |-> pip,
                           raised |-> IF pip = "failed" THEN "RuntimeError" ELSE "none",
                           runs |-> prep.runs + 1]
               /\ venv' = [python |-> TRUE,
                           marker |-> IF pip = "ok"
                                      THEN [exists |-> TRUE, text |-> desired_text(pinned)]
                                      ELSE venv.marker,
                           site |-> IF pip = "ok"
                                    THEN venv.site \cup { pinned[i] : i \in DOMAIN pinned }
                                    ELSE venv.site]
    /\ UNCHANGED << poolShared, callerLocals, history, workerVars, localVars, scratchVars,
                    mgmtVars, setupVars >>
    /\ UNCHANGED << auditVars, policyVars >>

\* the user deletes the venv directory; the next construction starts from nothing
VenvRemoved ==
    /\ venv # NoVenv
    /\ venv' = NoVenv
    /\ prep' = [NoPrep EXCEPT !.runs = prep.runs]
    /\ UNCHANGED << poolShared, callerLocals, history, workerVars, localVars, scratchVars,
                    mgmtVars, setupVars >>
    /\ UNCHANGED << auditVars, policyVars >>

InitVenv == PoolInit /\ fleet = EngineIds /\ WorkerOff

NextVenv ==
    \/ \E venv_dir \in BOOLEAN, venv_manager \in VenvManagers, packages \in LocalPackages,
          created \in BOOLEAN, installed \in BOOLEAN :
            LocalConstruct(venv_dir, venv_manager, packages, created, installed)
    \/ VenvRemoved

VenvSpec == InitVenv /\ [][NextVenv]_vars

\* ----------------------- execution/docker_pool.py, callers waiting for one container
\* Engine 2 (pool_size 1) alone, a backend that answers every command, and runs that
\* complete: the callers take turns on one container. Each thread is scheduled
\* fairly: time passes, a step that is enabled is taken, and a thread that asks for
\* the pool lock again and again gets it when it is free again and again.
WaitEngineId == 2

InitWait == PoolInit /\ fleet = { WaitEngineId } /\ WorkerOff

NextWait ==
    \/ \E c \in Callers : ExecuteStart(c, WaitEngineId, TRUE, FALSE)
    \/ \E c \in Callers : AcquireEnter(c)
    \/ \E c \in Callers : AcquireLocked(c, TRUE)
    \/ \E c \in Callers : AcquireCheck(c)
    \/ \E c \in Callers : RunInContainer(c, "completed", <<"obj_ok", 0>>)
    \/ \E c \in Callers : Finally(c)
    \/ \E c \in Callers : ReleaseLocked(c)
    \/ \E c \in Callers : Return(c)
    \/ Tick

FairScheduling ==
    /\ WF_vars(Tick)
    /\ \A c \in Callers :
        /\ SF_vars(AcquireEnter(c))
        /\ WF_vars(AcquireLocked(c, TRUE))
        /\ WF_vars(AcquireCheck(c))
        /\ WF_vars(RunInContainer(c, "completed", <<"obj_ok", 0>>))
        /\ SF_vars(Finally(c))
        /\ WF_vars(ReleaseLocked(c))
        /\ WF_vars(Return(c))

WaitSpec == InitWait /\ [][NextWait]_vars /\ FairScheduling

\* ---- runs whose policies name different memory limits ----

\* The memory limits the callers' policies name: one below the floor of 128 that
\* _create_container applies, the default, and one above the default.
MemoryLimits == { 64, DefaultPolicy.memory_limit_mb, 512 }

\* One engine, so one image: every run is served from the same idle containers,
\* whichever memory limit its policy names.
InitMemory == PoolInit /\ fleet = { WaitEngineId } /\ WorkerOff

NextMemory ==
    \/ \E c \in Callers, memory \in MemoryLimits :
            ExecuteStartWith(c, WaitEngineId, TRUE, FALSE, memory)
    \/ \E c \in Callers : AcquireEnter(c)
    \/ \E c \in Callers, created \in BOOLEAN : AcquireLocked(c, created)
    \/ \E c \in Callers : AcquireCheck(c)
    \/ \E c \in Callers : RunInContainer(c, "completed", <<"obj_ok", 0>>)
    \/ \E c \in Callers : Finally(c)
    \/ \E c \in Callers : ReleaseLocked(c)
    \/ \E c \in Callers : Return(c)
    \/ Tick

MemorySpec == InitMemory /\ [][NextMemory]_vars

\* ----------------------------------------------------------------- policy.py
\* What policy files hold: a mode (one of them none that RunnerPolicy accepts), a
\* timeout, and for each blocking list an empty list or one name.
FileModes == { "restrict", "allow", "strict" }
FileTimeouts == { 5, 9 }
FileImports == { << >>, <<"os">> }
FileBuiltins == { << >>, <<"eval">> }

PolicyFiles ==
    { f \in [exists : { TRUE }, keys : SUBSET PolicyKeys,
             table : [mode : FileModes \cup { "" },
                      timeout_seconds : FileTimeouts \cup { 0 },
                      blocked_imports : FileImports,
                      blocked_builtins : FileBuiltins]] :
        /\ ("mode" \in f.keys) <=> (f.table.mode # "")
        /\ ("timeout_seconds" \in f.keys) <=> (f.table.timeout_seconds # 0)
        /\ ("blocked_imports" \notin f.keys) => f.table.blocked_imports = << >>
        /\ ("blocked_builtins" \notin f.keys) => f.table.blocked_builtins = << >> }

\* dict.get(key, default) on the table read from the file
raw_get(raw, key, default) == IF key \in raw.keys THEN raw.table[key] ELSE default

\* _read_policy_toml: the hard-coded table when the file is missing, otherwise the
\* table of the file
read_policy_toml(file) ==
    IF ~file.exists
    THEN [keys |-> PolicyKeys,
          table |-> [mode |-> "restrict", timeout_seconds |-> 5,
                     blocked_imports |-> <<"os", "subprocess", "socket", "ctypes", "importlib">>,
                     blocked_builtins |-> <<"eval", "exec", "open", "compile", "breakpoint">>]]
    ELSE [keys |-> file.keys, table |-> file.table]

\* _list_of_str: a new list of the items of the value, in order
list_of_str(value) == [i \in 1..Len(value) |-> value[i]]

\* The module-level defaults: read from default_policy.toml beside policy.py, which
\* the package does not ship, so from the hard-coded table.
DEFAULT_POLICY_RAW == read_policy_toml(MissingFile)
DEFAULT_MODE == raw_get(DEFAULT_POLICY_RAW, "mode", "restrict")
DEFAULT_TIMEOUT_SECONDS == raw_get(DEFAULT_POLICY_RAW, "timeout_seconds", 5)
DEFAULT_BLOCKED_IMPORTS == list_of_str(raw_get(DEFAULT_POLICY_RAW, "blocked_imports", << >>))
DEFAULT_BLOCKED_BUILTINS == list_of_str(raw_get(DEFAULT_POLICY_RAW, "blocked_builtins", << >>))

\* RunnerPolicy(): every field from its default
RunnerPolicy ==
    [mode |-> DEFAULT_MODE, timeout_seconds |-> DEFAULT_TIMEOUT_SECONDS,
     blocked_imports |-> DEFAULT_BLOCKED_IMPORTS,
     blocked_builtins |-> DEFAULT_BLOCKED_BUILTINS]

\* RunnerPolicy.from_file: the fields from the table, each with the default that
\* from_file names for it, and __post_init__'s check of the mode
from_file(file) ==
    LET raw == read_policy_toml(file)
        policy == [mode |-> raw_get(raw, "mode", DEFAULT_MODE),
                   timeout_seconds |-> raw_get(raw, "timeout_seconds", DEFAULT_TIMEOUT_SECONDS),
                   blocked_imports |-> list_of_str(raw_get(raw, "blocked_imports", << >>)),
                   blocked_builtins |-> list_of_str(raw_get(raw, "blocked_builtins", << >>))]
    IN  IF policy.mode \notin { "allow", "restrict" }
        THEN [kind |-> "ValueError", policy |-> BlankTable]
        ELSE [kind |-> "policy", policy |-> policy]

\* Someone writes the policy file, or removes it.
WritePolicyFile(file) ==
    /\ toml # file
    /\ toml' = file
    /\ UNCHANGED loaded
    /\ UNCHANGED << poolShared, callerLocals, history, workerVars, localVars, scratchVars,
                    mgmtVars, setupVars >>
    /\ UNCHANGED << auditVars, venvVars >>

RemovePolicyFile ==
    /\ toml.exists
    /\ toml' = MissingFile
    /\ UNCHANGED loaded
    /\ UNCHANGED << poolShared, callerLocals, history, workerVars, localVars, scratchVars,
                    mgmtVars, setupVars >>
    /\ UNCHANGED << auditVars, venvVars >>

\* A caller loads the policy from the path; `from` records the file as it was read.
FromFile ==
    /\ loaded' = [stage |-> "loaded", from |-> toml, kind |-> from_file(toml).kind,
                  policy |-> from_file(toml).policy]
    /\ UNCHANGED toml
    /\ UNCHANGED << poolShared, callerLocals, history, workerVars, localVars, scratchVars,
                    mgmtVars, setupVars >>
    /\ UNCHANGED << auditVars, venvVars >>

InitPolicy == PoolInit /\ fleet = EngineIds /\ WorkerOff

NextPolicy ==
    \/ \E file \in PolicyFiles : WritePolicyFile(file)
    \/ RemovePolicyFile
    \/ FromFile

PolicySpec == InitPolicy /\ [][NextPolicy]_vars

\* ===================================================================
\* Properties
\* ===================================================================
\* the caller holds a lease: from acquire's return to release's end
Holding(c) == lease[c] # NoLease /\ pc[c] \in { "run", "finally", "rel_locked" }

PoolNames == UNION { EntryNames(by_image[img]) : img \in Images }

SettingsOf(c) == pool_settings(eng[c], TimeoutSeconds)

\* the step is caller c's acquire attempt (lines 95-131)
AttemptStep(c) == pc[c] = "acq_locked" /\ pc'[c] # "acq_locked"

\* ------------------------------------------------------------------- C1
C1_Exclusive ==
    \A c \in Callers : Holding(c) =>
        LET entries == by_image[image[c]]
            i == EntryIndex(entries, lease[c])
        IN /\ i # 0
           /\ entries[i].in_use
           /\ \A d \in Callers \ {c} : Holding(d) => lease[d] # lease[c]

C1_AcquireStep ==
    \A c \in Callers : (AttemptStep(c) /\ lease'[c] # NoLease) =>
        LET before == by_image[image[c]]
            after == by_image'[image[c]]
            i == EntryIndex(before, lease'[c])
            j == EntryIndex(after, lease'[c])
        IN /\ IF i = 0 THEN lease'[c] = next_name /\ next_name' = next_name + 1
                       ELSE ~before[i].in_use
           /\ j # 0
           /\ after[j].in_use

\* C1: in every interleaving of acquires and releases no container is held by two
\* callers at once: a holder's entry is in the pool and in_use, two holders hold
\* different containers, and an acquire returns only a container whose entry was
\* not in_use, or one it has just created, marked in_use in the same locked step.
C1_MutualExclusion == []C1_Exclusive /\ [][C1_AcquireStep]_vars

\* two callers hold two containers of one image, one of them a reused one
C1_Witness ==
    /\ \A c \in Callers : pc[c] = "run" /\ image[c] = DEFAULT_DOCKER_IMAGE
    /\ \E i \in DOMAIN by_image[DEFAULT_DOCKER_IMAGE] :
            by_image[DEFAULT_DOCKER_IMAGE][i].run_count > 0

\* ------------------------------------------------------------------- C2
SameSettings ==
    \A e1 \in fleet, e2 \in fleet :
        pool_settings(e1, TimeoutSeconds) = pool_settings(e2, TimeoutSeconds)

C2_Bounded ==
    SameSettings =>
        \A img \in Images, e \in fleet :
            Len(by_image[img]) <= pool_settings(e, TimeoutSeconds).pool_size

C2_CreateBelow ==
    \A c \in Callers : (AttemptStep(c) /\ next_name' # next_name) =>
        Len(by_image'[image[c]]) <= SettingsOf(c).pool_size

\* C2: when every caller uses the same pool settings, the entries of one image
\* (leased plus idle) never number more than pool_size; and an acquire creates a
\* container only when the image's entries, the new one included, stay within the
\* acquirer's pool_size.
C2_PoolSize == []C2_Bounded /\ [][C2_CreateBelow]_vars

\* a full pool under uniform settings, with a caller waiting for room
C2_Witness ==
    /\ SameSettings
    /\ \E c \in Callers :
        /\ pc[c] = "acq_check"
        /\ Len(by_image[image[c]]) = SettingsOf(c).pool_size

\* ------------------------------------------------------------------- C3
AllLeased(entries, settings) ==
    /\ Len(entries) >= settings.pool_size
    /\ \A i \in DOMAIN entries : entries[i].in_use

C3_NoTimeoutWhenAvailable ==
    \A c \in Callers : failure[c] = "acquire_timeout" => ~attempt[c].avail

C3_Blocks ==
    \A c \in Callers :
        (AttemptStep(c) /\ AllLeased(by_image[image[c]], SettingsOf(c))) =>
            lease'[c] = NoLease

C3_TimeoutAtDeadline ==
    \A c \in Callers : (pc[c] = "acq_check" /\ pc'[c] # "acq_check") =>
        ((failure'[c] = "acquire_timeout") <=> to_deadline[c] <= 0)

\* C3: an acquire for an image whose pool_size containers are all leased returns no
\* lease; a waiting acquire fails with the timeout error exactly when its
\* acquire_timeout has elapsed; and the timeout never follows an attempt that met
\* an idle live container or free capacity.
C3_AcquireBlocks ==
    []C3_NoTimeoutWhenAvailable /\ [][C3_Blocks /\ C3_TimeoutAtDeadline]_vars

\* ------------------------------------------------------------------- C4
Due(entry, settings) ==
    entry.run_count >= settings.max_runs \/ entry.age >= settings.ttl_seconds

IdleDue(entries, settings) ==
    { entries[i].name : i \in { k \in DOMAIN entries :
                                  ~entries[k].in_use /\ Due(entries[k], settings) } }

IdleFit(entries, settings) ==
    { entries[i].name : i \in { k \in DOMAIN entries :
                                  ~entries[k].in_use /\ ~Due(entries[k], settings) } }

\* C4 as the specification words it: an acquire whose rotation step removed a member
\* returns a freshly created container.
C4_FreshInstead ==
    [][\A c \in Callers :
          (AttemptStep(c) /\ attempt'[c].rotated # {} /\ lease'[c] # NoLease) =>
              lease'[c] \notin EntryNames(by_image[image[c]])]_vars

C4_RotationStep ==
    \A c \in Callers : AttemptStep(c) =>
        LET entries == by_image[image[c]]
            due == IdleDue(entries, SettingsOf(c))
        IN /\ attempt'[c].rotated = due
           /\ due \cap EntryNames(by_image'[image[c]]) = {}
           /\ due \cap running' = {}
           /\ lease'[c] # NoLease =>
                \/ lease'[c] \in IdleFit(entries, SettingsOf(c))
                \/ lease'[c] \notin EntryNames(entries)

\* C4: an idle member whose run_count has reached max_runs, or whose age has
\* reached ttl_seconds, is removed (entry and container) by the rotation step of
\* the next acquire for its image and is not returned; the lease that acquire
\* returns, if any, is an idle member not yet due or a freshly created container.
C4_Rotation == [][C4_RotationStep]_vars

\* an acquire rotated a member out and leased another, already used, member
C4_Witness ==
    \E c \in Callers :
        /\ pc[c] = "run"
        /\ attempt[c].rotated # {}
        /\ \E i \in DOMAIN by_image[image[c]] :
            /\ by_image[image[c]][i].name = lease[c]
            /\ by_image[image[c]][i].run_count > 0

\* ------------------------------------------------------------------- C5
AcquireFailures == { "acquire_timeout", "container_create_failed" }

\* C5: a lease execute acquired is released exactly once by the time execute
\* returns or raises, on every path (completion, workspace-preparation failure,
\* worker timeout, an exception after acquisition), never earlier than the finally
\* block and never twice; when the acquisition fails nothing is released.
C5_ReleasedOnce ==
    \A c \in Callers :
        /\ releases[c] <= 1
        /\ pc[c] \in { "done", "raised" } =>
                releases[c] = IF lease[c] # NoLease THEN 1 ELSE 0
        /\ pc[c] \in { "run", "finally" } => releases[c] = 0
        /\ failure[c] \in AcquireFailures => lease[c] = NoLease /\ releases[c] = 0
        /\ failure[c] \in { "workspace_prep_failed", "worker_timeout", "other_exception" }
                => lease[c] # NoLease

\* execute raised after the acquisition, its lease released once
C5_Witness ==
    \E c \in Callers :
        /\ pc[c] = "raised"
        /\ failure[c] = "other_exception"
        /\ lease[c] # NoLease
        /\ releases[c] = 1

\* ------------------------------------------------------------------- C6
C6_Gone ==
    \A c \in Callers : (pc[c] \in { "done", "raised" } /\ failure[c] = "worker_timeout") =>
        /\ mark_bad[c]
        /\ releases[c] = 1
        /\ lease[c] \notin PoolNames
        /\ lease[c] \notin running
        /\ \A d \in Callers \ {c} : Holding(d) => lease[d] # lease[c]
        /\ result[c] = RunnerResult(FALSE, TRUE, TRUE, 124)

\* a container that has left the pool is not put back, nor leased again
C6_NoComeback ==
    \A n \in Names : (n < next_name /\ n \notin PoolNames) =>
        /\ n \notin EntryNames(by_image'[DEFAULT_DOCKER_IMAGE])
        /\ n \notin EntryNames(by_image'[LOCAL_RUNTIME_IMAGE])
        /\ \A c \in Callers : lease'[c] = n => lease[c] = n

\* C6: when the worker invocation exceeds timeout_seconds the container is marked
\* bad and, before execute returns, released once and force-removed: its entry is
\* gone from the pool, the container is gone, nobody else holds it, and since a
\* container that left the pool never comes back it is never idle in the pool and
\* never leased to a later caller.
C6_TimedOutRemoved == []C6_Gone /\ [][C6_NoComeback]_vars

\* a run has timed out and the other caller is served by a later container
C6_Witness ==
    \E c \in Callers, d \in Callers :
        /\ pc[c] = "done"
        /\ failure[c] = "worker_timeout"
        /\ pc[d] = "run"
        /\ lease[d] > lease[c]

\* ------------------------------------------------------------------- C7
C7_ReleaseStep ==
    \A c \in Callers : (pc[c] = "rel_locked" /\ pc'[c] # "rel_locked") =>
        LET before == by_image[image[c]]
            after == by_image'[image[c]]
            i == EntryIndex(before, lease[c])
            j == EntryIndex(after, lease[c])
        IN /\ i # 0
           /\ before[i].in_use
           /\ IF mark_bad[c]
              THEN /\ j = 0
                   /\ lease[c] \notin running'
                   /\ Len(after) = Len(before) - 1
              ELSE /\ j # 0
                   /\ ~after[j].in_use
                   /\ after[j].run_count = before[i].run_count + 1
                   /\ after[j].idle = 0
                   /\ after[j].age = before[i].age
                   /\ Len(after) = Len(before)
                   /\ running' = running

\* C7: the release of a leased container finds its entry in_use; without mark_bad
\* the entry stays in the pool, not in_use, its run_count one higher and its
\* last_used_at refreshed (idle time 0), whatever its run_count and age; with
\* mark_bad the entry is deleted and the container force-removed.
C7_Release == [][C7_ReleaseStep]_vars

\* a plain release left an entry idle in the pool although its run_count is at max_runs
C7_Witness ==
    \E c \in Callers :
        /\ pc[c] = "done"
        /\ releases[c] = 1
        /\ ~mark_bad[c]
        /\ \E i \in DOMAIN by_image[image[c]] :
            /\ by_image[image[c]][i].name = lease[c]
            /\ ~by_image[image[c]][i].in_use
            /\ by_image[image[c]][i].run_count >= SettingsOf(c).max_runs

\* ------------------------------------------------------------------- C8
ContainersOf(img) == { n \in Names : image_of[n] = img }

C8_Keyed ==
    \A img \in Images : EntryNames(by_image[img]) \subseteq ContainersOf(img)

C8_AttemptStep ==
    \A c \in Callers : AttemptStep(c) =>
        /\ \A img \in Images \ {image[c]} :
            /\ by_image'[img] = by_image[img]
            /\ running' \cap ContainersOf(img) = running \cap ContainersOf(img)
        /\ lease'[c] # NoLease => image_of'[lease'[c]] = image[c]
        /\ pc'[c] = "acq_check" =>
                Len(by_image'[image[c]]) >= SettingsOf(c).pool_size

\* C8: pools are independent per image: every entry listed under an image is a
\* container created from that image; an acquire for image A leaves the entries and
\* the containers of every other image as they were (no rotation, probe removal or
\* lease), returns only a container of image A, and waits only when A's own entries
\* fill A's pool_size.
C8_PerImage == []C8_Keyed /\ [][C8_AttemptStep]_vars

\* an acquire for the local image created a container while an idle live container
\* of the published image sat in the pool
C8_Witness ==
    \E c \in Callers :
        /\ pc[c] = "run"
        /\ image[c] = LOCAL_RUNTIME_IMAGE
        /\ \A i \in DOMAIN by_image[LOCAL_RUNTIME_IMAGE] :
                by_image[LOCAL_RUNTIME_IMAGE][i].name = lease[c]
        /\ \E i \in DOMAIN by_image[DEFAULT_DOCKER_IMAGE] :
            /\ ~by_image[DEFAULT_DOCKER_IMAGE][i].in_use
            /\ by_image[DEFAULT_DOCKER_IMAGE][i].name \in running

\* ------------------------------------------------------------------- C9
EngineFailures ==
    { "backend_unreachable", "image_build_failed", "container_create_failed",
      "acquire_timeout", "workspace_prep_failed", "worker_timeout" }

\* C9: no engine-level failure raises past run_code: after a failure inside execute
\* (backend unreachable, image pull or build failure, container creation failure,
\* acquire timeout, workspace preparation failure, worker timeout) run_code has
\* returned a RunnerResult with ok false.
C9_NoRaise ==
    \A c \in Callers : (pc[c] \in { "done", "raised" } /\ failure[c] \in EngineFailures) =>
        /\ pc[c] = "done"
        /\ result[c].kind = "result"
        /\ ~result[c].ok

\* ------------------------------------------------------------------ C10
\* C10: the worker writes exactly one JSON result object to standard output on
\* every path through main: never more than one, and one by the time the process
\* ends, whatever the submitted code does.
C10_OneJson ==
    /\ Len(wout) <= 1
    /\ wpc \in { "returned", "escaped" } => Len(wout) = 1

\* ------------------------------------------------------------------ C11
\* the request makes a MemoryError happen: mode is valid, so the code is executed,
\* and the code faults on an allocation or its result is too large to serialize
MemoryFaultRaised ==
    /\ wreq.policy.mode \in { "allow", "restrict" }
    /\ wreq.code.kind \in { "allocation_fault", "result_too_large" }

\* C11: a MemoryError raised anywhere in the worker's sequence, also while the
\* submitted code is executing, ends the worker with one response of the
\* resource-exceeded category (ok false, resource_exceeded true) and exit code 2.
C11_MemoryFaultReported ==
    (MemoryFaultRaised /\ wpc \in { "returned", "escaped" }) =>
        /\ wout = << Response(FALSE, TRUE, "Memory limit exceeded") >>
        /\ wexit = 2

\* ------------------------------------------------------------------ imports
ImportRun == wpc = "returned" /\ wreq.code.kind = "import"

\* N is the name, or a package above the name
IsPrefix(N, name) == Len(N) <= Len(name) /\ SubSeq(name, 1, Len(N)) = N

ImportFailed(text) ==
    wout = << FaultResponse(wreq.code, wreq.policy, text) >> /\ wexit = 1
ImportSucceeded == wout = << Response(TRUE, FALSE, "none") >> /\ wexit = 0

\* C12: in restrict mode, for every name N in blocked_imports, an import of N or of a
\* submodule of N fails with "blocked by policy" in every form (direct, aliased,
\* from-import, the import builtin, the reflection-based importer).
C12_BlockedImportFails ==
    (ImportRun /\ wreq.policy.mode = "restrict") =>
        \A N \in wreq.policy.blocked_imports :
            IsPrefix(N, wreq.code.name) => ImportFailed("blocked by policy")

\* C13 as stated: in allow mode an import whose root is not in allowed_imports fails
\* with "not allowed by policy", and an import of a name in allowed_imports succeeds.
C13_AllowListAsStated ==
    (ImportRun /\ wreq.policy.mode = "allow") =>
        /\ root(wreq.code.name) \notin wreq.policy.allowed_imports =>
                ImportFailed("not allowed by policy")
        /\ wreq.code.name \in wreq.policy.allowed_imports => ImportSucceeded

\* the statement reaches the interpreter's importer: the hook is called with the
\* statement's own module name and that name is not the reflection-based importer
ReachesImporter == wreq.code.form # "import_module" /\ ~IsImportlib(wreq.code.name)

\* C13: in allow mode an import whose root is not in allowed_imports fails, with
\* "blocked by policy" where the hook is called with importlib or importlib.* and with
\* "not allowed by policy" otherwise; an import whose root is in allowed_imports and
\* that reaches the interpreter's importer succeeds exactly when the module exists,
\* and is never refused by policy.
C13_AllowList ==
    (ImportRun /\ wreq.policy.mode = "allow") =>
        /\ root(wreq.code.name) \notin wreq.policy.allowed_imports =>
                IF ReachesImporter THEN ImportFailed("not allowed by policy")
                ELSE ImportFailed("blocked by policy")
        /\ (root(wreq.code.name) \in wreq.policy.allowed_imports /\ ReachesImporter) =>
                IF wreq.code.name \in Importable THEN ImportSucceeded
                ELSE ImportFailed("ModuleNotFoundError")

C13_Witness ==
    /\ ImportRun /\ wreq.policy.mode = "allow"
    /\ wreq.code.name = << "os", "path" >>
    /\ wreq.policy.allowed_imports = { << "os" >> }
    /\ ImportSucceeded

\* C14: importlib and every importlib.* submodule is refused by the import hook in
\* both modes whatever the lists say: a run that imports one, or that goes through
\* importlib.import_module, ends with "blocked by policy".
C14_ImportlibDenied ==
    (ImportRun /\ wreq.policy.mode \in { "allow", "restrict" } /\ ~ReachesImporter) =>
        ImportFailed("blocked by policy")

C14_Witness ==
    /\ ImportRun /\ wreq.policy.mode = "allow"
    /\ wreq.code.name = << "importlib", "util" >>
    /\ wreq.code.form = "from_import"
    /\ << "importlib" >> \in wreq.policy.allowed_imports
    /\ ImportFailed("blocked by policy")

\* ------------------------------------------------------------------ builtins
\* the policy withholds builtin B: blocked in restrict mode, not allowed in allow mode
Withheld(B) ==
    IF wreq.policy.mode = "allow" THEN B \notin wreq.policy.allowed_builtins
    ELSE B \in wreq.policy.blocked_builtins

\* the submitted code has run against the builtins built for the request's policy
BuiltinsBuilt ==
    /\ wreq.policy.mode \in { "allow", "restrict" }
    /\ wreq.code.kind # "syntax_error"
    /\ wpc \in { "respond", "returned", "escaped" }

NameNotFound ==
    wout = << FaultResponse(wreq.code, wreq.policy, "NameError") >> /\ wexit = 1

\* C15 as stated: every builtin B the policy withholds is absent from the builtins the
\* code sees, and every other builtin of the catalogue is present.
C15_BuiltinsAsStated ==
    BuiltinsBuilt =>
        \A B \in BuiltinNames : B \in build_safe_builtins(wreq.policy) <=> ~Withheld(B)

\* C15: every builtin other than __import__ is absent exactly when the policy
\* withholds it, and code that uses an absent builtin ends with a NameError;
\* __import__ is present under every policy, so code that calls it never ends with a
\* NameError.
C15_Builtins ==
    BuiltinsBuilt =>
        /\ \A B \in BuiltinNames \ { "__import__" } :
                B \in build_safe_builtins(wreq.policy) <=> ~Withheld(B)
        /\ "__import__" \in build_safe_builtins(wreq.policy)
        /\ (wpc = "returned" /\ NameUsed(wreq.code) # "none") =>
                (NameNotFound <=>
                    (Withheld(NameUsed(wreq.code)) /\ NameUsed(wreq.code) # "__import__"))

C15_Witness ==
    /\ BuiltinsBuilt /\ wpc = "returned"
    /\ wreq.policy.mode = "allow"
    /\ wreq.code.kind = "exit"
    /\ wreq.policy.allowed_builtins = { "KeyboardInterrupt" }
    /\ NameNotFound

\* ------------------------------------------------------------------ namespace
\* the namespace is built and the submitted code has not run yet
CodeStarts == wpc = "exec"

\* the policy's extra_globals binds the name
ExtraBinds(key) == key \in filter_extra_globals(wreq.policy)

RuleAdmits(key) ==
    IF wreq.policy.mode = "allow" THEN key \in wreq.policy.allowed_globals
    ELSE key \notin wreq.policy.blocked_globals

InputKey(key) == wreq.input_data.is_dict /\ key \in wreq.input_data.keys

\* C17: when the code starts, a name is bound to a value of extra_globals exactly when
\* it is a key of extra_globals that the global-name rule admits, and to a value of
\* input_data exactly when it is a top-level key of input_data that the rule admits,
\* is an identifier, is not reserved, does not start with an underscore and is not
\* bound already; code that reads the name x fails with a NameError exactly when
\* neither exposes x.
C17_Exposure ==
    /\ CodeStarts =>
            \A key \in GlobalNames :
                /\ exec_globals[key] = "extra_value" <=>
                        (key \in wreq.policy.extra_globals /\ RuleAdmits(key))
                /\ exec_globals[key] = "input_value" <=>
                        /\ InputKey(key) /\ RuleAdmits(key)
                        /\ isidentifier(key)
                        /\ key \notin reserved
                        /\ ~startswith_underscore(key)
                        /\ initial_exec_globals(wreq.policy)[key] = "absent"
    /\ (wpc = "returned" /\ wreq.policy.mode \in { "allow", "restrict" }
            /\ wreq.code.kind = "read_global") =>
            (NameNotFound <=>
                ~(RuleAdmits("x") /\ (InputKey("x") \/ "x" \in wreq.policy.extra_globals)))

C17_Witness ==
    /\ wpc = "returned"
    /\ wreq.code.kind = "read_global"
    /\ wreq.policy.mode = "allow" /\ "x" \in wreq.policy.allowed_globals
    /\ InputKey("x") /\ InputKey("_tmp") /\ "x" \notin wreq.policy.extra_globals
    /\ exec_globals["_tmp"] = "absent"
    /\ wout = << [Response(TRUE, FALSE, "none") EXCEPT !.result = "input_value"] >>

\* ------------------------------------------------------------------ timeouts
RunOver(c) == pc[c] \in { "done", "raised" }

\* C18: a LocalEngine run whose worker outlives the timeout ends with the worker
\* killed and an outcome with timed_out true and return code 124, and no finished
\* local run leaves its worker running; a container run whose worker times out hands
\* back an outcome with timed_out true and return code 124; and run_code turns every
\* outcome with timed_out true, whatever its stdout, error and return code, into a
\* result with ok false, timed_out true and exit_code 124.
C18_Timeout ==
    \A c \in Callers :
        /\ (eng[c] = LocalEngineId /\ RunOver(c)) =>
                /\ child[c] \in { "exited", "killed" }
                /\ child[c] = "killed" <=>
                        (timer[c] = 0 /\ outcome[c].timed_out /\ outcome[c].returncode = 124)
        /\ (eng[c] = LocalEngineId /\ pc[c] = "local_run") => child[c] = "running"
        /\ (failure[c] = "worker_timeout" /\ eng[c] # OtherEngineId
                /\ pc[c] \in { "finally", "rel_locked", "done" }) =>
                (outcome[c].timed_out /\ outcome[c].returncode = 124)
        /\ (RunOver(c) /\ outcome[c].timed_out) =>
                result[c] = RunnerResult(FALSE, TRUE, TRUE, 124)

C18_Witness ==
    \E c, d \in Callers :
        /\ eng[c] = LocalEngineId /\ pc[c] = "done" /\ child[c] = "killed"
        /\ result[c] = RunnerResult(FALSE, TRUE, TRUE, 124)
        /\ eng[d] = OtherEngineId /\ pc[d] = "done"
        /\ outcome[d].timed_out /\ outcome[d].stdout = "obj_ok"
        /\ result[d] = RunnerResult(FALSE, TRUE, TRUE, 124)

\* ------------------------------------------------------------------ backend unreachable
\* the step in which caller c's execute finds the control plane unreachable
UnreachableStep(c) == pc[c] = "idle" /\ failure'[c] = "backend_unreachable"

\* C19: the execute that finds the control plane unreachable returns in that one step
\* an outcome with return code 125 and a diagnostic; the step resolves no image, takes
\* no lease, creates and removes no container, starts no worker, stays with the engine
\* it was called on, and run_code hands its caller ok false with an error and exit
\* code 125.
C19_HardFailStep ==
    \A c \in Callers :
        UnreachableStep(c) =>
            /\ outcome'[c] = ExecutionOutcome("empty", 125, FALSE, "docker_unavailable")
            /\ pc'[c] = "done"
            /\ result'[c] = RunnerResult(FALSE, FALSE, TRUE, 125)
            /\ eng'[c] \in fleet
            /\ UNCHANGED << poolShared, image, lease, mark_bad, releases, attempt,
                            to_deadline, workerVars, localVars >>
            /\ image[c] = NoImage /\ lease[c] = NoLease

C19_HardFail == [][C19_HardFailStep]_vars

C19_Witness ==
    \E c \in Callers :
        /\ failure[c] = "backend_unreachable"
        /\ pc[c] = "done"
        /\ result[c] = RunnerResult(FALSE, FALSE, TRUE, 125)
        /\ cached_image[eng[c]] = NoImage
        /\ running = {}

\* ------------------------------------------------------------------ workspace
InExecute(c) == pc[c] \in { "prep_dir", "worker", "finally", "rel_locked", "done" }

\* the worker starts only from the position after both preparation steps; a
\* preparation step that reports failure leaves the worker unstarted and the lease
\* marked bad, and the release that follows removes the container
C20_Order ==
    \A c \in Callers :
        /\ (InExecute(c) /\ started[c]) => pc[c] \in { "finally", "rel_locked", "done" }
        /\ (InExecute(c) /\ failure[c] = "workspace_prep_failed") =>
                /\ ~started[c]
                /\ pc[c] \in { "finally", "rel_locked" } => mark_bad[c]
                /\ pc[c] = "done" => lease[c] \notin running

\* C20: the worker starts only after the scratch directory was cleared and the
\* per-run directory created; when either step fails the worker is not started and
\* the container is marked bad and removed; and no file that an earlier run left in
\* the container is there when a worker starts.
C20_CleanWorkspace ==
    /\ C20_Order
    /\ \A c \in Callers : (InExecute(c) /\ started[c]) => seen[c] = {}

\* ------------------------------------------------------------------ management
\* what the inspect of the call showed: no such container, or no marker label on it
LacksMarker == call.check.returncode # 0 \/ call.check.stdout # "true\n"

C21_Refused ==
    (call.stage \in { "checked", "done" } /\ LacksMarker) =>
        /\ call.stage = "done"
        /\ call.raised = "ValueError"
        /\ docker_cmds = << >>

C21_CommandStep ==
    (docker_cmds' # docker_cmds /\ docker_cmds' # << >>) =>
        /\ call.stage = "checked" /\ ~LacksMarker
        /\ docker_cmds' = Append(docker_cmds, << call.op, call.id >>)

\* C21: a stop_container or kill_container call whose inspect shows no container or
\* no managed marker on it ends with ValueError and issues no command; a stop or kill
\* command is issued only by a call whose check has passed, for the id it checked.
C21_ManagedOnly == []C21_Refused /\ [][C21_CommandStep]_vars

C21_Witness ==
    /\ call.stage = "done"
    /\ call.id = UnlabelledId
    /\ call.op = "kill"
    /\ call.raised = "ValueError"
    /\ docker_cmds = << >>
    /\ running # {}

\* ---- output budget ----

\* the worker has written its response
Answered == wpc = "returned" /\ Len(wout) = 1
\* the response came from the runtime-fault path or the completion path
ExecutedPath ==
    /\ wreq.policy.mode \in { "allow", "restrict" }
    /\ wreq.code.kind \in { "completes", "zero_division", "exit" }
\* what the code put on stdout: the buffer, and `printed` on the completion path
Produced ==
    IF wreq.code.kind = "zero_division" THEN stdout_buffer(wreq.code)
    ELSE stdout_buffer(wreq.code) \o printed_text(wreq.code)

\* C22: on every worker path the returned stdout and stderr each take at most
\* max_output_kb * 1024 bytes, and code whose stdout output takes more bytes than that
\* gets back a stdout of exactly that many bytes.
C22_OutputBudget ==
    Answered =>
        LET budget == max_output_bytes(wreq.policy) IN
        /\ encoded_len(wout[1].stdout) <= budget
        /\ encoded_len(wout[1].stderr) <= budget
        /\ (ExecutedPath /\ encoded_len(Produced) > budget)
                => encoded_len(wout[1].stdout) = budget

\* ---- syntax errors ----

SyntaxInvalid ==
    /\ wreq.code.kind = "syntax_error"
    /\ wreq.policy.mode \in { "allow", "restrict" }
C23_Reported ==
    (SyntaxInvalid /\ wpc \in { "returned", "escaped" }) =>
        /\ Answered
        /\ wout[1] = Response(FALSE, FALSE, "SyntaxError")
        /\ wout[1].stdout = EmptyText /\ wout[1].stderr = EmptyText
        /\ wexit = 1
C23_NoExecStep ==
    SyntaxInvalid =>
        /\ wpc' \notin { "exec", "respond" }
        /\ exec_globals' = NoGlobals
        /\ system_exit' = NoSystemExit
\* C23: code that does not compile is never executed: the exec step is never reached
\* and no namespace is built for it, and the worker answers ok false with a
\* SyntaxError error, empty stdout and stderr, resource_exceeded false and exit code 1.
C23_SyntaxError == []C23_Reported /\ [][C23_NoExecStep]_vars
\* code that would write to stdout, but does not compile, has been answered
C23_Witness ==
    /\ SyntaxInvalid
    /\ Answered
    /\ stdout_buffer(wreq.code) # EmptyText
    /\ wout[1].error = "SyntaxError"
    /\ wout[1].stdout = EmptyText
    /\ wexit = 1

\* ---- early termination ----

\* the code raised SystemExit and the worker has answered
ExitAnswered ==
    /\ wreq.code.kind = "exit"
    /\ wreq.policy.mode \in { "allow", "restrict" }
    /\ Answered
\* the RunnerResult run_code builds from the worker's answer and exit status
RunResult == run_code_result(worker_outcome(wout[1], wexit))

\* C24: code that raises SystemExit with payload 0 or without a payload gives a
\* successful RunnerResult with exit_code 0; with any other integer payload n it
\* gives a failed RunnerResult whose exit_code is n.
C24_IntegerExit ==
    (ExitAnswered /\ wreq.code.payload.type \in { "none", "int" }) =>
        IF wreq.code.payload.type = "none" \/ wreq.code.payload.value = 0
        THEN RunResult.ok /\ RunResult.exit_code = 0
        ELSE ~RunResult.ok /\ RunResult.exit_code = wreq.code.payload.value

\* text ends with the payload's text and a newline
PayloadAppended(text, p) ==
    /\ Len(text) >= 2
    /\ text[Len(text)] = Run(1, "newline")
    /\ << text[Len(text) - 1] >> = payload_text(p)
    /\ count(text, "s") = len(payload_text(p))

\* C25: code that raises SystemExit with a payload that is not an integer (and not
\* absent) gives a failed RunnerResult with exit_code 1, and the returned stderr ends
\* with the payload's text.
C25_NonIntegerExit ==
    (ExitAnswered /\ wreq.code.payload.type \notin { "none", "int" }) =>
        /\ ~RunResult.ok
        /\ RunResult.exit_code = 1
        /\ PayloadAppended(wout[1].stderr, wreq.code.payload)

\* ---- pool settings of a run ----

\* C28: the pool settings a run's execute uses have an acquire_timeout strictly
\* greater than the run's timeout, whatever the engine's constructor overrides are,
\* and max(1, timeout) + 2 when the engine overrides nothing.
C28_AcquireTimeout ==
    \A c \in Callers :
        (pc[c] # "idle" /\ eng[c] \in EngineIds) =>
            /\ SettingsOf(c).acquire_timeout > TimeoutSeconds
            /\ Engines[eng[c]].acquire_timeout_seconds = 0
                    => SettingsOf(c).acquire_timeout = Max(1, TimeoutSeconds) + 2

\* ---- conflicting policy sources ----

BothSources == rc.policy # "None" /\ rc.policy_file # "None"
C26_Raised ==
    (BothSources /\ rc.stage \notin { "idle", "resolve" }) =>
        /\ rc.stage = "raised"
        /\ rc.raised = "ValueError"
        /\ rc.payload = "none"
        /\ \A c \in Callers : eng[c] = NoEngine /\ outcome[c] = NoOutcome
C26_NoStep ==
    BothSources => /\ rc'.payload = "none"
                   /\ eng' = eng
                   /\ outcome' = outcome
                   /\ rc'.stage \in { "resolve", "raised" }
\* C26: a run_code call that is given both an inline policy and a policy file raises
\* ValueError from _resolve_policy; it builds no payload and never calls the engine.
C26_ConflictingSources == []C26_Raised /\ [][C26_NoStep]_vars
\* such a call has raised, the policy file being readable
C26_Witness ==
    /\ rc.policy = "inline"
    /\ rc.policy_file = "path"
    /\ rc.stage = "raised"
    /\ rc.raised = "ValueError"
    /\ rc.payload = "none"
    /\ eng[1] = NoEngine

\* ---- connection options ----

\* the options the claim names as conflicting
Conflicting(o) ==
    \/ o.docker_context /\ (o.docker_host \/ o.ssh_host)
    \/ (o.ssh_user \/ o.ssh_port \/ o.ssh_key_path) /\ ~o.ssh_host
\* nothing has been asked of the backend and no run has begun
Untouched ==
    /\ running = {} /\ next_name = 1 /\ docker_cmds = << >>
    /\ \A img \in Images : by_image[img] = << >>
    /\ \A c \in Callers : pc[c] = "idle" /\ eng[c] = NoEngine
C27_Refused ==
    (ctor.stage # "idle" /\ Conflicting(ctor.options)) =>
        /\ ctor.stage = "raised"
        /\ ctor.raised = "ValueError"
        /\ NewEngineId \notin fleet
        /\ Untouched
C27_ConstructStep ==
    ctor' # ctor => /\ Untouched /\ Untouched'
                    /\ (NewEngineId \in fleet' => ~Conflicting(ctor'.options))
\* C27: constructing a DockerEngine with a context together with a direct host or an
\* SSH host, or with an SSH user, port or key path but no SSH host, raises ValueError
\* in the constructor: the program gets no engine, so no run is attempted on it, and
\* the constructor asks nothing of the backend.
C27_ConnectionOptions == []C27_Refused /\ [][C27_ConstructStep]_vars
\* a construction with an SSH port and no SSH host has raised
C27_Witness ==
    /\ ctor.stage = "raised"
    /\ ctor.raised = "ValueError"
    /\ ctor.options = [NoOptions EXCEPT !.ssh_port = TRUE]
    /\ NewEngineId \notin fleet

\* ---- image resolution ----

\* the image the stated order gives engine e
Ordered(e, img) ==
    IF ImageEngines[e].container_registry # NoRef
        THEN img = ImageEngines[e].container_registry
    ELSE IF ImageEngines[e].packages # << >>
        THEN img = Ref("safe-py-runner-env",
                       env_hash("3.11", validate_pinned_packages(ImageEngines[e].packages),
                                ImageEngines[e].name))
    ELSE img \in { DefaultRef, LocalRef }
\* every image a resolution has returned is the one the order gives
C29_OrderKept == \A c \in Callers : rs[c].pc = "returned" => Ordered(rs[c].e, rs[c].img)
\* a package image was built only when its tag did not exist
C29_BuiltIfAbsent ==
    \A b \in builds : b.image.repo = "safe-py-runner-env" => ~b.existed
\* a resolution begun after the engine's first result returns that same image
C29_Stable ==
    \A c \in Callers :
        (rs[c].pc = "returned" /\ rs[c].after # NoRef) => rs[c].img = rs[c].after

\* C29: an engine's image is the explicit reference if one is given, else the package
\* image tagged by the hash of interpreter version, sorted packages and namespace,
\* built only if the tag does not exist yet, else the published image if present or
\* pulled, else the local build; and once an engine has resolved its image, every
\* later run of that engine gets the same image.
C29_Resolution == C29_OrderKept /\ C29_BuiltIfAbsent /\ C29_Stable

\* ---- the scan of one acquire attempt ----

\* the pool of caller c's image holds an idle member that is not due for rotation
\* and passes the liveness probe
IdleLiveMember(c) ==
    \E i \in DOMAIN by_image[PoolKey(image[c])] :
        LET entry == by_image[PoolKey(image[c])][i] IN
        /\ ~entry.in_use
        /\ ~should_rotate(entry, SettingsOf(c))
        /\ entry.name \in running
C30_AttemptStep ==
    \A c \in Callers :
        (AttemptStep(c) /\ IdleLiveMember(c)) =>
            /\ lease'[c] \in EntryNames(by_image[PoolKey(image[c])])
            /\ lease'[c] \in running
            /\ next_name' = next_name
\* C30: an acquire attempt that finds in the image's pool an idle member that is not
\* due for rotation and is running leases a member the pool already had and creates
\* no container, also when idle members before it fail the probe and are removed.
C30_LeasesIdleMember == [][C30_AttemptStep]_vars

\* ---- the liveness probe of an acquire attempt ----

\* the members caller c's last step under the lock probed and found not running
FailedProbe(c) == locked_calls[c].inspect \cap locked_calls[c].rm

C31_Removed ==
    \A c \in Callers : \A n \in FailedProbe(c) :
        /\ n \notin PoolNames
        /\ n \notin running
        /\ \A d \in Callers : Holding(d) => lease[d] # n

C31_ProbeStep ==
    \A c \in Callers : AttemptStep(c) =>
        LET before == by_image[PoolKey(image[c])]
            after == by_image'[PoolKey(image[c])]
            calls == locked_calls'[c]
        IN /\ \A n \in calls.inspect :
                /\ \E i \in DOMAIN before : before[i].name = n /\ ~before[i].in_use
                /\ n \notin running =>
                     /\ n \in calls.rm
                     /\ n \notin EntryNames(after)
                     /\ n \notin running'
                     /\ lease'[c] # n
           /\ lease'[c] \in EntryNames(before) =>
                /\ lease'[c] \in calls.inspect
                /\ lease'[c] \in running

\* C31: an idle container that fails the liveness probe during an acquire attempt is
\* force-removed and its entry deleted in that same step and is not the container
\* the attempt returns; afterwards it is in no pool, does not run and is held by
\* nobody; and an attempt returns a container the pool already had only when that
\* container passed the probe in the same locked step.
C31_ProbedBeforeLease == []C31_Removed /\ [][C31_ProbeStep]_vars

\* an attempt found a member dead, removed it, and left with a container
C31_Witness ==
    \E c \in Callers :
        /\ pc[c] = "run"
        /\ FailedProbe(c) # {}
        /\ lease[c] \notin FailedProbe(c)
        /\ lease[c] \in PoolNames

\* ---- the docker commands run while the pool lock is held ----

\* C32: the only docker commands a caller runs while it holds the pool lock are
\* container creation (`docker run`) and container removal (`docker rm -f`): no step
\* under the lock runs `docker inspect`, and the caller does not hold the lock while
\* it prepares the workspace and runs the worker, or sleeps between attempts.
C32_OnlyCreateRemove ==
    \A c \in Callers :
        /\ locked_calls[c].inspect = {}
        /\ pc[c] \in { "run", "finally", "acq_check" } => lock # c

\* ---- preparing a local environment ----

\* the step is a construction of a LocalEngine
PrepareStep == prep'.runs = prep.runs + 1

\* the marker file holds exactly the lines of this package set
Records(marker, packages) == marker.exists /\ marker.text = desired_text(packages)

C33_PrepareStep ==
    PrepareStep =>
        /\ prep'.pip # "none" =>
                prep'.packages # << >> /\ ~Records(venv.marker, prep'.packages)
        /\ venv'.marker # venv.marker =>
                prep'.pip = "ok" /\ Records(venv'.marker, prep'.packages)
        /\ prep'.pip = "ok" => Records(venv'.marker, prep'.packages)
        /\ prep'.pip = "failed" => venv'.marker = venv.marker /\ prep'.stage = "raised"
        /\ (prep.stage = "constructed" /\ prep'.packages = prep.packages) =>
                prep'.pip = "none"
        /\ (prep.pip = "failed" /\ prep'.packages = prep.packages) => prep'.pip # "none"

\* C33: a construction runs pip only when packages are asked for and the marker
\* file is absent or does not hold exactly that set; the marker changes only after a
\* successful install, to that set; a failed install leaves the marker as it was and
\* raises; a construction right after a successful one with the same set installs
\* nothing, and one right after a failed install of the same set installs again.
C33_InstallOnChange == [][C33_PrepareStep]_vars

\* the same set was prepared twice in a row: installed the first time, not the second
C33_Witness ==
    /\ prep.stage = "constructed"
    /\ prep.packages = << "a==1", "b==2" >>
    /\ prep.pip = "none"
    /\ prep.runs = 2
    /\ Records(venv.marker, prep.packages)
    /\ venv.site = { "a==1", "b==2" }

\* ---- a leased container and the other callers ----

\* the entry of container n in the pool of image img, if it has one
EntryOf(img, n) == by_image[img][EntryIndex(by_image[img], n)]

\* the step is the release of caller d's lease
ReleaseStep(d) == pc[d] = "rel_locked" /\ pc'[d] # "rel_locked"

C34_LeasedStep ==
    \A d \in Callers : Holding(d) =>
        LET img == PoolKey(image[d])
            n == lease[d]
            j == EntryIndex(by_image'[img], n)
        IN \/ ReleaseStep(d)
           \/ /\ j # 0
              /\ by_image'[img][j].in_use
              /\ n \in running => n \in running'

\* C34: a container that is leased is not removed from the pool by another caller:
\* in every step other than its holder's release its entry stays in the pool and
\* in_use and its container is not removed, also when it is due for rotation while
\* another caller's acquire rotates and scans the pool of its image.
C34_LeasedStays == [][C34_LeasedStep]_vars

\* a caller's attempt has met a pool whose only member was leased and due by age
C34_Witness ==
    \E c \in Callers, d \in Callers :
        /\ c # d
        /\ pc[c] = "acq_check"
        /\ to_deadline[c] = SettingsOf(c).acquire_timeout
        /\ image[c] = image[d]
        /\ Holding(d)
        /\ EntryIndex(by_image[PoolKey(image[d])], lease[d]) # 0
        /\ EntryOf(PoolKey(image[d]), lease[d]).in_use
        /\ EntryOf(PoolKey(image[d]), lease[d]).run_count = 0
        /\ EntryOf(PoolKey(image[d]), lease[d]).age >= SettingsOf(c).ttl_seconds

\* ---- the number of leases of one container ----

\* the leases container entry has been handed out on so far
LeasesOf(entry) == entry.run_count + (IF entry.in_use THEN 1 ELSE 0)

C35_Bounded ==
    SameSettings =>
        \A img \in Images, e \in fleet : \A i \in DOMAIN by_image[img] :
            /\ LeasesOf(by_image[img][i]) <= pool_settings(e, TimeoutSeconds).max_runs
            /\ by_image[img][i].run_count <= pool_settings(e, TimeoutSeconds).max_runs

C35_HandOutStep ==
    \A c \in Callers :
        (AttemptStep(c) /\ lease'[c] \in EntryNames(by_image[PoolKey(image[c])])) =>
            EntryOf(PoolKey(image[c]), lease'[c]).run_count < SettingsOf(c).max_runs

\* C35: when every caller uses the same pool settings and each lease is released
\* once, no container is leased more than max_runs times: the run_count of a pooled
\* container, plus one while it is leased, never exceeds max_runs, and an attempt
\* hands out a container the pool already had only while its run_count is below
\* the acquirer's max_runs.
C35_MaxRuns == []C35_Bounded /\ [][C35_HandOutStep]_vars

\* a container has been leased and released max_runs times and waits for rotation
C35_Witness ==
    /\ SameSettings
    /\ \E img \in Images, e \in fleet : \E i \in DOMAIN by_image[img] :
        /\ ~by_image[img][i].in_use
        /\ by_image[img][i].run_count = pool_settings(e, TimeoutSeconds).max_runs

\* ---- waiting for capacity ----

\* caller c is between two attempts of acquire
BetweenAttempts(c) == pc[c] \in { "acq_check", "acq_enter" }

\* a release has left an idle member in the pool of c's image while c waits with its
\* deadline still ahead
ReleasedToWaiter(c) ==
    /\ pc[c] = "acq_enter"
    /\ to_deadline[c] > 0
    /\ \E i \in DOMAIN by_image[PoolKey(image[c])] :
            /\ ~by_image[PoolKey(image[c])][i].in_use
            /\ by_image[PoolKey(image[c])][i].run_count > 0

C36_SleepsUnlocked == \A c \in Callers : BetweenAttempts(c) => lock # c

C36_ReleaseCompletes ==
    \A d \in Callers : (pc[d] = "finally" /\ lease[d] # NoLease) ~> (pc[d] = "done")

C36_WaiterServed == \A c \in Callers : ReleasedToWaiter(c) ~> Holding(c)

\* C36: the pool cannot deadlock: an acquirer between attempts does not hold the
\* pool lock, a holder's release gets the lock and completes, and an acquirer that is
\* waiting with its deadline ahead when a release returns a container to the pool
\* obtains a lease on a later attempt, under fair scheduling.
C36_NoDeadlock == []C36_SleepsUnlocked /\ C36_ReleaseCompletes /\ C36_WaiterServed

\* ---- from an engine's outcome to a result ----

\* C37: run_code's mapping from an outcome to a result is total: whenever an engine
\* has returned an ExecutionOutcome (stdout empty, a JSON object, text that is not
\* JSON, or JSON that is not an object, with any error and timed_out flag) run_code
\* returns a RunnerResult and does not raise.
C37_TotalMapping ==
    \A c \in Callers : (RunOver(c) /\ outcome[c].kind = "returned") =>
        /\ pc[c] = "done"
        /\ result[c].kind = "result"

\* ---- the memory ceiling of the leased container ----

\* C38: whenever a run holds a pooled container, the memory ceiling of that
\* container is max(128, memory_limit_mb) of the run's own policy, also when the
\* container was created for an earlier run whose policy named another limit.
C38_OwnCeiling ==
    \A c \in Callers :
        Holding(c) => mem_of[lease[c]] = Max(128, memory_limit_mb[c])

\* ---- a policy file that omits fields ----

\* C39: a policy loaded from an existing file has, for every field the file omits,
\* the value of that field in the default policy RunnerPolicy(), which is also the
\* value a missing file gives; so a file that omits blocked_imports and
\* blocked_builtins yields the default-blocked imports and builtins.
C39_OmittedIsDefault ==
    (loaded.stage = "loaded" /\ loaded.kind = "policy" /\ loaded.from.exists) =>
        \A k \in PolicyKeys \ loaded.from.keys :
            /\ loaded.policy[k] = RunnerPolicy[k]
            /\ loaded.policy[k] = from_file(MissingFile).policy[k]

\* ---- what the returned stdout holds ----

\* C40: when the submitted code completes normally, the returned stdout is a prefix
\* of the text the code wrote to standard output; the value of no variable of the
\* execution namespace is added to it.
C40_OnlyWritten ==
    (Answered /\ wreq.code.kind = "completes" /\ wout[1].ok) =>
        wout[1].stdout = take(stdout_buffer(wreq.code), len(wout[1].stdout))

====
